---- MODULE Spec2Model ----
(***************************************************************************)
(* NFO tracker mobile app: the NFO home screen (shift, site, activity,     *)
(* status heartbeat, location heartbeat, logout), the auth context and the *)
(* nfo_status table the heartbeats are upserted into.                      *)
(* Further the foreground position watch and the paged loading of the     *)
(* site list of that screen, the useBackgroundLocation hook, and the       *)
(* manager dashboard (fetching, filters, sort order and counters).         *)
(*                                                                         *)
(* Text is a sequence of one-character strings, so that trim() and         *)
(* toLowerCase() are computed and not assumed.  A nullable value is a      *)
(* sequence of length 0 (null) or 1 (the value).                           *)
(*                                                                         *)
(* A React handler reads the state of the render it was created in: every  *)
(* handler invocation carries a snapshot `snap` of the screen state taken  *)
(* when the button was pressed, and its setXxx calls change the live state.*)
(* The visibility flags of the two dropdown menus are left out: a menu can *)
(* always be opened without changing anything else.  So are the values     *)
(* that are only displayed (backgroundTaskRegistered, lastUpdatedAt,       *)
(* showDebug).                                                             *)
(***************************************************************************)
EXTENDS Integers, Sequences, FiniteSets, TLC

\* ---------------------------------------------------------------- bounds
MaxTasks == 1      \* handler invocations in flight at the same time
MaxLogins == 1     \* logins per run of the app
MaxEdits == 3      \* edits of the site, activity and work order inputs per login
MaxBatch == 2      \* positions in one background batch
MaxHookOps == 2    \* asynchronous calls of useBackgroundLocation in flight
MaxHookMounts == 1 \* mounts of a component that uses useBackgroundLocation
MaxLoginCalls == 2 \* AuthContext.login calls in flight
MaxOverlap == 2    \* handler invocations in flight once Logout is pressed
MaxFleet == 3      \* rows of nfo_status a fetch of ManagerDashboardScreen returns
MaxFetches == 1    \* fetchNfos calls in flight
MaxDashMounts == 1 \* mounts of ManagerDashboardScreen

HEARTBEAT_SECONDS == 30
BACKGROUND_TASK_NAME == "NFO_TRACKING_TASK"
PAGE_SIZE == 1000

\* new Date(): the time of a write is not distinguished
Now == "now"

\* ----------------------------------------------------------- null / option
None == <<>>
Some(v) == <<v>>

\* ------------------------------------------------------------------ text
Empty == <<>>
AB == <<"A", "B">>
ab == <<"a", "b">>
PadAb == <<" ", "A", "b", " ">>
Zz == <<"z">>
Qu == <<"Q">>
qu == <<"q">>
Blank == <<" ">>
Outage == <<"O", "u", "t">>
WO7 == <<"7">>
Riyadh == <<"R">>
All == <<"A", "l", "l">>

LowerChar(c) ==
    CASE c = "A" -> "a"
      [] c = "B" -> "b"
      [] c = "O" -> "o"
      [] c = "Q" -> "q"
      [] c = "R" -> "r"
      [] OTHER -> c

UpperChar(c) ==
    CASE c = "a" -> "A"
      [] c = "b" -> "B"
      [] c = "l" -> "L"
      [] c = "o" -> "O"
      [] c = "q" -> "Q"
      [] c = "r" -> "R"
      [] c = "t" -> "T"
      [] c = "u" -> "U"
      [] c = "z" -> "Z"
      [] OTHER -> c

ToUpperCase(s) == [i \in 1..Len(s) |-> UpperChar(s[i])]

\* s.includes(q)
includes(s, q) == \E i \in 1..(Len(s) + 1) :
                     i + Len(q) - 1 <= Len(s) /\ SubSeq(s, i, i + Len(q) - 1) = q

ToLowerCase(s) == [i \in 1..Len(s) |-> LowerChar(s[i])]

RECURSIVE TrimStart(_)
TrimStart(s) ==
    IF s # <<>> /\ Head(s) = " " THEN TrimStart(Tail(s)) ELSE s

RECURSIVE TrimEnd(_)
TrimEnd(s) ==
    IF s # <<>> /\ s[Len(s)] = " " THEN TrimEnd(SubSeq(s, 1, Len(s) - 1)) ELSE s

Trim(s) == TrimEnd(TrimStart(s))

\* Array.prototype.find: the first element that satisfies P, or absent
RECURSIVE FindFirst(_, _)
FindFirst(list, norm) ==
    IF list = <<>> THEN None
    ELSE IF ToLowerCase(Trim(Head(list))) = norm THEN Some(Head(list))
    ELSE FindFirst(Tail(list), norm)

Range(f) == {f[i] : i \in DOMAIN f}

\* Array.from(new Set(list)): first occurrences, in order
Unique(list) ==
    LET firstAt(v) == CHOOSE i \in 1..Len(list) :
                          list[i] = v /\ \A j \in 1..(i - 1) : list[j] # v
        firsts == {firstAt(v) : v \in Range(list)}
        nth(k) == CHOOSE i \in firsts : Cardinality({j \in firsts : j < i}) = k - 1
    IN  [k \in 1..Cardinality(firsts) |-> list[nth(k)]]

\* ------------------------------------------------------------ input sets
TypedTexts == {Empty, PadAb, Zz}
ActivityOptions == {Outage}
WorkOrders == {Empty, WO7}
Positions == {[lat |-> 2, lng |-> 3]}
SiteTables == {<<AB, Blank, Qu, qu>>}
BatchPositions == {[lat |-> 2, lng |-> 3]}
\* rows of NFOusers, and the tables the credentials are looked up in: the
\* accounts, no account, and the accounts with one row stored twice over
Accounts == {[Username |-> "u1", Password |-> "p1", name |-> Empty,
              home_location |-> Riyadh],
             [Username |-> "u2", Password |-> "p2", name |-> Zz,
              home_location |-> Empty]}
UserTables == {Accounts, {},
               Accounts \cup {[Username |-> "u2", Password |-> "p2", name |-> Empty,
                               home_location |-> Empty]}}
Credentials == [username : {"u1", "u2"}, password : {"p1", "p2"}]

LoginFailed == "Login failed. Please try again."
InvalidCredentials == "Invalid username or password."

\* .select('*').eq('Username', u).eq('Password', p).maybeSingle(): the row,
\* null when no row matches, an error when several do or the call fails
maybeSingle(table, u, p, fails) ==
    LET rows == {r \in table : r.Username = u /\ r.Password = p}
    IN  IF fails THEN [data |-> None, error |-> Some("fetch")]
        ELSE IF rows = {} THEN [data |-> None, error |-> None]
        ELSE IF Cardinality(rows) = 1
        THEN [data |-> Some(CHOOSE r \in rows : TRUE), error |-> None]
        ELSE [data |-> None, error |-> Some("PGRST116")]

\* a lookup by username alone
loginWithSupabase_usernameOnly(table, u, p, fails) ==
    LET res == maybeSingle({[r EXCEPT !.Password = p] : r \in table}, u, p, fails)
    IN  IF res.error # None THEN [ok |-> FALSE, error |-> LoginFailed]
        ELSE IF res.data = None THEN [ok |-> FALSE, error |-> InvalidCredentials]
        ELSE [ok |-> TRUE,
              identity |-> [username |-> res.data[1].Username,
                            name |-> res.data[1].name,
                            home_location |-> res.data[1].home_location]]

\* loginWithSupabase: the identity it returns, or the error it throws
loginWithSupabase(table, u, p, fails) ==
    LET res == maybeSingle(table, u, p, fails)
    IN  IF res.error # None THEN [ok |-> FALSE, error |-> LoginFailed]
        ELSE IF res.data = None THEN [ok |-> FALSE, error |-> InvalidCredentials]
        ELSE [ok |-> TRUE,
              identity |-> [username |-> res.data[1].Username,
                            name |-> res.data[1].name,
                            home_location |-> res.data[1].home_location]]

\* userData of AuthContext.login (x || '' leaves a text as it is)
userData(result) ==
    [username |-> result.username,
     full_name |-> result.name,
     home_location |-> result.home_location,
     is_active |-> TRUE]

\* the identities a login of this screen's user can produce
Directory == {userData(loginWithSupabase(Accounts, "u1", "p1", FALSE).identity)}

\* -------------------------------------------------------------- the state
VARIABLES
    user,                     \* AuthContext authState.user: None or Some(identity)
    session,                  \* number of logins so far (identifies the mounted screen)
    onShift, activity, selectedSiteId, siteQuery, workOrderId,
    currentLocation,          \* None or Some(position)
    lastHeartbeat,            \* None ('') or Some(time)
    isLoading,
    siteOptions,              \* the loaded site ids, in table order
    sitesLoaded,              \* loadSites has run for the mounted screen
    edits,                    \* input edits made on the mounted screen
    registrations,            \* the background location registrations of the platform
    taskExecutor,             \* which function TaskManager holds for NFO_TRACKING_TASK
    tasks,                    \* handler invocations suspended at an await
    nfo_status,               \* the backend table: a set of rows
    hb,                       \* the sendStatusHeartbeat call made by the last step, or None
    lo,                       \* the logout payload built by the last step, or None
    bgLog,                    \* the batch the background task handled in the last step, or None
    ev,                       \* the handler or platform call that ran in the last step, or None
    authIsLoading, authError, \* AuthContext authState.isLoading and authState.error
    logins,                   \* AuthContext.login calls awaiting loginWithSupabase
    NFOusers,                 \* the backend table of credentials
    hookMounted,              \* a component that uses useBackgroundLocation is mounted
    hookInstance,             \* number of such mounts so far
    enabled, heartbeatIntervalSeconds,   \* the options of its last render
    hasCleanup,               \* its last effect run returned a cleanup
    isRegistered,             \* useBackgroundLocation isRegistered
    hookOps,                  \* calls of useBackgroundLocation suspended at an await
    locationInit,             \* initializeLocation calls suspended at an await
    locationSubscriptionRef,  \* locationSubscriptionRef.current of the mounted screen
    watches,                  \* the foreground position subscriptions of the platform
    Site_Coordinates,         \* the backend table of sites, ordered by site_id
    paging,                   \* the loadSites call suspended at an await, or None
    dashboard,                \* the state of ManagerDashboardScreen
    fetches                   \* fetchNfos calls suspended at an await

screenVars == <<onShift, activity, selectedSiteId, siteQuery, workOrderId,
                currentLocation, lastHeartbeat, isLoading,
                siteOptions, sitesLoaded, edits>>

authVars == <<authIsLoading, authError, logins, NFOusers>>

hookVars == <<hookMounted, hookInstance, enabled, heartbeatIntervalSeconds,
              hasCleanup, isRegistered, hookOps>>

watchVars == <<locationInit, locationSubscriptionRef, watches>>

pageVars == <<Site_Coordinates, paging>>

dashVars == <<dashboard, fetches>>

moreVars == <<watchVars, pageVars, dashVars>>

vars == <<user, session, screenVars, registrations, taskExecutor, tasks,
          nfo_status, hb, lo, bgLog, ev, authVars, hookVars, moreVars>>

\* location updates are started for NFO_TRACKING_TASK
bgRunning == \E r \in registrations : r.task = BACKGROUND_TASK_NAME

Cols == {"username", "logged_in", "on_shift", "status", "activity", "site_id",
         "work_order_id", "lat", "lng", "home_location", "updated_at",
         "last_ping", "last_active_at", "last_active_source"}

\* the values a render of NFOHomeScreen closes over
Snap == [user |-> user, onShift |-> onShift, activity |-> activity,
         selectedSiteId |-> selectedSiteId, siteQuery |-> siteQuery,
         workOrderId |-> workOrderId, currentLocation |-> currentLocation,
         siteOptions |-> siteOptions]

NoSnap == [user |-> None, onShift |-> FALSE, activity |-> Empty,
           selectedSiteId |-> Empty, siteQuery |-> Empty,
           workOrderId |-> Empty, currentLocation |-> None,
           siteOptions |-> <<>>]

Mounted == user # None

\* setState of an unmounted screen does nothing
Live(t) == Mounted /\ t.screen = session

username(s) == IF s.user = None THEN "" ELSE s.user[1].username

\* x || null
OrNull(x) == IF x = Empty THEN None ELSE Some(x)

\* currentLocation?.lat || null : 0 is falsy
NumOrNull(loc, f) == IF loc = None \/ loc[1][f] = 0 THEN None ELSE Some(loc[1][f])

\* the lookup set built without lower-casing
normalizedSiteIdSet_caseSensitive(opts) == {Trim(opts[i]) : i \in DOMAIN opts}

normalizedSiteIdSet(opts) == {ToLowerCase(Trim(opts[i])) : i \in DOMAIN opts}

filteredSiteOptions ==
    IF Trim(siteQuery) = Empty THEN Range(siteOptions)
    ELSE {o \in Range(siteOptions) :
            \E i \in 1..Len(o), j \in 0..Len(o) :
                SubSeq(ToLowerCase(o), i, j) = ToLowerCase(siteQuery)}

derivedStatus ==
    IF ~onShift THEN "off"
    ELSE LET hasActivity == Len(Trim(activity)) > 0
             hasSiteId == Len(Trim(selectedSiteId)) > 0
         IN IF hasActivity \/ hasSiteId THEN "busy" ELSE "free"

\* the status derived from shift and activity only
statusForDb_ignoresSite(s, finalSiteId) ==
    IF ~s.onShift THEN "off-shift"
    ELSE IF Len(Trim(s.activity)) > 0 THEN "busy" ELSE "free"

\* a status derived from activity and site only
statusForDb_neverOffShift(s, finalSiteId) ==
    LET hasActivity == Len(Trim(s.activity)) > 0
        hasSiteId == IF finalSiteId # None THEN Len(finalSiteId[1]) > 0 ELSE FALSE
    IN IF hasActivity \/ hasSiteId THEN "busy" ELSE "free"

\* statusForDb of sendStatusHeartbeat
statusForDb(s, finalSiteId) ==
    IF ~s.onShift THEN "off-shift"
    ELSE LET hasActivity == Len(Trim(s.activity)) > 0
             hasSiteId == IF finalSiteId # None THEN Len(finalSiteId[1]) > 0 ELSE FALSE
         IN IF hasActivity \/ hasSiteId THEN "busy" ELSE "free"

\* a payload whose source tag is taken from the clock
heartbeatPayload_stampedSource(s, lat, lng, finalSiteId, now) ==
    [username |-> Some(username(s)),
     logged_in |-> Some(TRUE),
     on_shift |-> Some(s.onShift),
     status |-> Some(statusForDb(s, finalSiteId)),
     activity |-> OrNull(s.activity),
     site_id |-> finalSiteId,
     work_order_id |-> OrNull(s.workOrderId),
     lat |-> Some(lat),
     lng |-> Some(lng),
     home_location |-> IF s.user = None THEN None ELSE OrNull(s.user[1].home_location),
     updated_at |-> Some(now),
     last_ping |-> Some(now),
     last_active_at |-> Some(now),
     last_active_source |-> Some(now)]

heartbeatPayload(s, lat, lng, finalSiteId, now) ==
    [username |-> Some(username(s)),
     logged_in |-> Some(TRUE),
     on_shift |-> Some(s.onShift),
     status |-> Some(statusForDb(s, finalSiteId)),
     activity |-> OrNull(s.activity),
     site_id |-> finalSiteId,
     work_order_id |-> OrNull(s.workOrderId),
     lat |-> Some(lat),
     lng |-> Some(lng),
     home_location |-> IF s.user = None THEN None ELSE OrNull(s.user[1].home_location),
     updated_at |-> Some(now),
     last_ping |-> Some(now),
     last_active_at |-> Some(now),
     last_active_source |-> Some("mobile-app")]

\* the site resolution without the Invalid Site ID checks
resolveSite_noValidation(s) ==
    LET typed == Trim(s.siteQuery)
        chosen == Trim(s.selectedSiteId)
        case1 == Len(typed) > 0 /\ chosen = Empty
        case2 == Len(chosen) > 0
        found1 == FindFirst(s.siteOptions, ToLowerCase(typed))
        found2 == FindFirst(s.siteOptions, ToLowerCase(chosen))
        final1 == IF found1 # None THEN found1 ELSE Some(typed)
        final2 == IF found2 # None THEN found2 ELSE Some(chosen)
    IN  [invalid |-> FALSE,
         finalSiteId |-> IF case2 THEN final2 ELSE IF case1 THEN final1 ELSE None,
         syncSelected |-> IF case1 THEN final1 ELSE None]

\* the site validation of sendStatusHeartbeat: whether it alerts Invalid Site
\* ID, the finalSiteId it resolves, and the argument of setSelectedSiteId when
\* it was called
resolveSite(s) ==
    LET typed == Trim(s.siteQuery)
        chosen == Trim(s.selectedSiteId)
        set == normalizedSiteIdSet(s.siteOptions)
        case1 == Len(typed) > 0 /\ chosen = Empty
        case2 == Len(chosen) > 0
        found1 == FindFirst(s.siteOptions, ToLowerCase(typed))
        found2 == FindFirst(s.siteOptions, ToLowerCase(chosen))
        final1 == IF found1 # None THEN found1 ELSE Some(typed)
        final2 == IF found2 # None THEN found2 ELSE Some(chosen)
    IN  [invalid |-> \/ case1 /\ ToLowerCase(typed) \notin set
                     \/ case2 /\ ToLowerCase(chosen) \notin set,
         finalSiteId |-> IF case2 THEN final2 ELSE IF case1 THEN final1 ELSE None,
         syncSelected |-> IF case1 THEN final1 ELSE None]

\* a missing return after the Invalid Site ID alert
sendStatusHeartbeat_noReturn(s, lat, lng, now) ==
    LET site == resolveSite(s)
        st == statusForDb(s, site.finalSiteId)
        falsy == site.finalSiteId = None \/ site.finalSiteId[1] = Empty
    IN  IF site.invalid
        THEN [outcome |-> "invalidSite", finalSiteId |-> None, statusForDb |-> "",
              payload |-> Some(heartbeatPayload(s, lat, lng, None, now)),
              syncSelected |-> None]
        ELSE IF st = "busy" /\ falsy
        THEN [outcome |-> "siteRequired", finalSiteId |-> site.finalSiteId,
              statusForDb |-> st, payload |-> None, syncSelected |-> site.syncSelected]
        ELSE [outcome |-> "sent", finalSiteId |-> site.finalSiteId, statusForDb |-> st,
              payload |-> Some(heartbeatPayload(s, lat, lng, site.finalSiteId, now)),
              syncSelected |-> site.syncSelected]

\* sendStatusHeartbeat up to its await: validation, status, payload.
\* outcome is the alert shown ("invalidSite", "siteRequired") or "sent";
\* payload is the row handed to upsert, None when no upsert is issued.
sendStatusHeartbeat(s, lat, lng, now) ==
    LET site == resolveSite(s)
        st == statusForDb(s, site.finalSiteId)
        falsy == site.finalSiteId = None \/ site.finalSiteId[1] = Empty
    IN  IF site.invalid
        THEN [outcome |-> "invalidSite", finalSiteId |-> None, statusForDb |-> "",
              payload |-> None, syncSelected |-> None]
        ELSE IF st = "busy" /\ falsy
        THEN [outcome |-> "siteRequired", finalSiteId |-> site.finalSiteId,
              statusForDb |-> st, payload |-> None, syncSelected |-> site.syncSelected]
        ELSE [outcome |-> "sent", finalSiteId |-> site.finalSiteId, statusForDb |-> st,
              payload |-> Some(heartbeatPayload(s, lat, lng, site.finalSiteId, now)),
              syncSelected |-> site.syncSelected]

\* a location payload that also carries the status columns
locationPayload_withStatus(s, lat, lng, now) ==
    [username |-> Some(username(s)),
     on_shift |-> Some(s.onShift),
     status |-> Some(IF s.onShift THEN "free" ELSE "off-shift"),
     lat |-> Some(lat),
     lng |-> Some(lng),
     last_ping |-> Some(now),
     last_active_at |-> Some(now),
     last_active_source |-> Some("mobile-app-gps")]

locationPayload(s, lat, lng, now) ==
    [username |-> Some(username(s)),
     lat |-> Some(lat),
     lng |-> Some(lng),
     last_ping |-> Some(now),
     last_active_at |-> Some(now),
     last_active_source |-> Some("mobile-app-gps")]

\* a logout payload built from the screen state, as the status payload is
logoutPayload_fromState(s, now) ==
    [username |-> Some(username(s)),
     logged_in |-> Some(FALSE),
     on_shift |-> Some(s.onShift),
     status |-> Some(statusForDb(s, OrNull(s.selectedSiteId))),
     activity |-> OrNull(s.activity),
     site_id |-> OrNull(s.selectedSiteId),
     work_order_id |-> OrNull(s.workOrderId),
     lat |-> NumOrNull(s.currentLocation, "lat"),
     lng |-> NumOrNull(s.currentLocation, "lng"),
     updated_at |-> Some(now),
     last_ping |-> Some(now),
     last_active_at |-> Some(now),
     last_active_source |-> Some("mobile-app")]

logoutPayload(s, now) ==
    [username |-> Some(username(s)),
     logged_in |-> Some(FALSE),
     on_shift |-> Some(FALSE),
     status |-> Some("off-shift"),
     activity |-> None,
     site_id |-> None,
     work_order_id |-> None,
     lat |-> NumOrNull(s.currentLocation, "lat"),
     lng |-> NumOrNull(s.currentLocation, "lng"),
     updated_at |-> Some(now),
     last_ping |-> Some(now),
     last_active_at |-> Some(now),
     last_active_source |-> Some("mobile-app")]

\* an insert that takes no notice of the row already stored for the username
Upsert_insert(table, p) == table \cup {[c \in Cols |-> IF c \in DOMAIN p THEN p[c] ELSE None]}

\* supabase .upsert(payload, { onConflict: 'username' }): insert the row, or on
\* a row with the same username set the columns the payload names
Upsert(table, p) ==
    LET existing == {r \in table : r.username = p.username}
        merge(r) == [c \in Cols |-> IF c \in DOMAIN p THEN p[c] ELSE r[c]]
        fresh == [c \in Cols |-> IF c \in DOMAIN p THEN p[c] ELSE None]
    IN  IF existing = {} THEN table \cup {fresh}
        ELSE (table \ existing) \cup {merge(r) : r \in existing}

\* ------------------------------------------------------------------ Init
\* the state of a NFOHomeScreen that has just been mounted, or is not mounted
FreshScreen ==
    /\ onShift' = FALSE
    /\ activity' = Empty
    /\ selectedSiteId' = Empty
    /\ siteQuery' = Empty
    /\ workOrderId' = Empty
    /\ currentLocation' = None
    /\ lastHeartbeat' = None
    /\ isLoading' = FALSE
    /\ siteOptions' = <<>>
    /\ sitesLoaded' = FALSE
    /\ edits' = 0

\* ManagerDashboardScreen before it is mounted: the initial values of its state
NoDashboard ==
    [mounted |-> FALSE, instance |-> 0, nfoList |-> <<>>, nfoUsers |-> <<>>, sites |-> <<>>,
     selectedArea |-> All, statusFilter |-> "all", searchQuery |-> Empty,
     isLoading |-> FALSE]

\* The app has started: nobody is logged in, and loading the module of
\* NFOHomeScreen has defined NFO_TRACKING_TASK with the logging executor.
Started ==
    /\ user = None
    /\ session = 0
    /\ onShift = FALSE
    /\ activity = Empty
    /\ selectedSiteId = Empty
    /\ siteQuery = Empty
    /\ workOrderId = Empty
    /\ currentLocation = None
    /\ lastHeartbeat = None
    /\ isLoading = FALSE
    /\ siteOptions = <<>>
    /\ sitesLoaded = FALSE
    /\ edits = 0
    /\ registrations = {}
    /\ taskExecutor = [fn |-> "moduleLevel", snap |-> NoSnap]
    /\ tasks = <<>>
    /\ nfo_status = {}
    /\ hb = None
    /\ lo = None
    /\ bgLog = None
    /\ ev = None
    /\ authIsLoading = FALSE
    /\ authError = None
    /\ logins = <<>>
    /\ hookMounted = FALSE
    /\ hookInstance = 0
    /\ enabled = FALSE
    /\ heartbeatIntervalSeconds = HEARTBEAT_SECONDS
    /\ hasCleanup = FALSE
    /\ isRegistered = FALSE
    /\ hookOps = <<>>
    /\ locationInit = <<>>
    /\ locationSubscriptionRef = None
    /\ watches = {}
    /\ paging = None
    /\ dashboard = NoDashboard
    /\ fetches = <<>>

Init == Started /\ NFOusers = Accounts /\ Site_Coordinates \in SiteTables

\* --------------------------------------------------------------- helpers
Task(kind, pc, snap, payload, screen) ==
    [kind |-> kind, pc |-> pc, snap |-> snap, payload |-> payload,
     resp |-> "pending", screen |-> screen]

RemoveAt(seq, i) == SubSeq(seq, 1, i - 1) \o SubSeq(seq, i + 1, Len(seq))

Call(via, s, r) == Some([via |-> via, snap |-> s, result |-> r])

\* what the last step ran: a handler, or a start/stop call that settled
\* (whether the ticker ran before it, whether the platform call threw, and
\* whether the error reached the caller)
Ev(op, wasRunning, threw, raised) ==
    Some([op |-> op, wasRunning |-> wasRunning, threw |-> threw, raised |-> raised])

noObs == hb' = None /\ lo' = None /\ bgLog' = None /\ ev' = None

platformVars == <<registrations, taskExecutor>>

\* ------------------------------------------------- the location platform
\* Location.startLocationUpdatesAsync(task, options): registrations are keyed
\* by the task name
startLocationUpdatesAsync(reg, task, timeInterval) ==
    {r \in reg : r.task # task} \cup {[task |-> task, timeInterval |-> timeInterval]}

stopLocationUpdatesAsync(reg, task) == {r \in reg : r.task # task}

hasStartedLocationUpdatesAsync(reg, task) == \E r \in reg : r.task = task

\* startBackgroundTracking from its await on: the registrations after it and
\* whether an error reaches the caller (the catch alerts and returns)
startBackgroundTracking(reg, threw) ==
    [registrations |-> IF threw THEN reg
                       ELSE startLocationUpdatesAsync(reg, BACKGROUND_TASK_NAME,
                                                      HEARTBEAT_SECONDS * 1000),
     raised |-> FALSE]

\* stopBackgroundTracking without its try / catch
stopBackgroundTracking_noCatch(reg, threw) ==
    [registrations |-> IF threw THEN reg
                       ELSE stopLocationUpdatesAsync(reg, BACKGROUND_TASK_NAME),
     raised |-> threw]

\* stopBackgroundTracking: the catch logs the error of the platform call
stopBackgroundTracking(reg, threw) ==
    [registrations |-> IF threw THEN reg
                       ELSE stopLocationUpdatesAsync(reg, BACKGROUND_TASK_NAME),
     raised |-> FALSE]

\* ------------------------------------------------- session and the inputs
\* AuthContext.login succeeded; the navigator mounts a new NFOHomeScreen
login(id) ==
    /\ user = None
    /\ session < MaxLogins
    /\ user' = Some(id)
    /\ session' = session + 1
    /\ FreshScreen
    /\ noObs
    /\ UNCHANGED <<platformVars, tasks, nfo_status>>
    /\ UNCHANGED <<authVars, hookVars, moreVars>>

\* the cleanup of the mount effect of NFOHomeScreen
unmountCleanup ==
    /\ watches' = IF locationSubscriptionRef # None
                  THEN watches \ {locationSubscriptionRef[1]}
                  ELSE watches
    /\ locationSubscriptionRef' = None
    /\ UNCHANGED locationInit

\* AuthContext.logout: the navigator unmounts NFOHomeScreen, whose effect
\* cleanup removes the subscription locationSubscriptionRef holds
logout ==
    /\ user' = None
    /\ authIsLoading' = FALSE
    /\ authError' = None
    /\ FreshScreen
    /\ unmountCleanup

\* initial fix and the foreground watch callback: setCurrentLocation
setCurrentLocation(p) ==
    /\ Mounted
    /\ currentLocation' = Some(p)
    /\ noObs
    /\ UNCHANGED <<user, session, onShift, activity, selectedSiteId, siteQuery,
                   workOrderId, lastHeartbeat, isLoading, siteOptions, sitesLoaded,
                   edits, platformVars, tasks, nfo_status>>
    /\ UNCHANGED <<authVars, hookVars, moreVars>>

TrimmedNonEmpty(rows) ==
    SelectSeq([i \in 1..Len(rows) |-> Trim(rows[i])], LAMBDA id : Len(id) > 0)

loadSites(table) ==
    /\ Mounted
    /\ ~sitesLoaded
    /\ siteOptions' = Unique(TrimmedNonEmpty(table))
    /\ sitesLoaded' = TRUE
    /\ noObs
    /\ UNCHANGED <<user, session, onShift, activity, selectedSiteId, siteQuery,
                   workOrderId, currentLocation, lastHeartbeat, isLoading,
                   edits, platformVars, tasks, nfo_status>>
    /\ UNCHANGED <<authVars, hookVars, moreVars>>

Edit == Mounted /\ edits < MaxEdits /\ edits' = edits + 1

\* the site input's onChangeText
onChangeText(text) ==
    /\ Edit
    /\ siteQuery' = text
    /\ noObs
    /\ UNCHANGED <<user, session, onShift, activity, selectedSiteId,
                   workOrderId, currentLocation, lastHeartbeat, isLoading,
                   siteOptions, sitesLoaded, platformVars, tasks, nfo_status>>
    /\ UNCHANGED <<authVars, hookVars, moreVars>>

\* a dropdown option is pressed
selectSite(item) ==
    /\ Edit
    /\ item \in filteredSiteOptions
    /\ selectedSiteId' = item
    /\ siteQuery' = item
    /\ noObs
    /\ UNCHANGED <<user, session, onShift, activity,
                   workOrderId, currentLocation, lastHeartbeat, isLoading,
                   siteOptions, sitesLoaded, platformVars, tasks, nfo_status>>
    /\ UNCHANGED <<authVars, hookVars, moreVars>>

\* Clear Selection, shown when selectedSiteId is not empty
clearSelection ==
    /\ Edit
    /\ selectedSiteId # Empty
    /\ selectedSiteId' = Empty
    /\ siteQuery' = Empty
    /\ noObs
    /\ UNCHANGED <<user, session, onShift, activity,
                   workOrderId, currentLocation, lastHeartbeat, isLoading,
                   siteOptions, sitesLoaded, platformVars, tasks, nfo_status>>
    /\ UNCHANGED <<authVars, hookVars, moreVars>>

\* an entry of the activity menu is pressed
setActivity(item) ==
    /\ Edit
    /\ activity' = item
    /\ noObs
    /\ UNCHANGED <<user, session, onShift, selectedSiteId, siteQuery,
                   workOrderId, currentLocation, lastHeartbeat, isLoading,
                   siteOptions, sitesLoaded, platformVars, tasks, nfo_status>>
    /\ UNCHANGED <<authVars, hookVars, moreVars>>

setWorkOrderId(text) ==
    /\ Edit
    /\ workOrderId' = text
    /\ noObs
    /\ UNCHANGED <<user, session, onShift, activity, selectedSiteId, siteQuery,
                   currentLocation, lastHeartbeat, isLoading,
                   siteOptions, sitesLoaded, platformVars, tasks, nfo_status>>
    /\ UNCHANGED <<authVars, hookVars, moreVars>>

\* ------------------------------------------------------ status heartbeats
\* sendStatusHeartbeat called by a handler of the current render: s is that
\* render's state, baseSel the selectedSiteId the handler itself has set
CallStatusHeartbeat(via, s, baseSel) ==
    LET loc == s.currentLocation[1]
        r == sendStatusHeartbeat(s, loc.lat, loc.lng, Now)
    IN  /\ selectedSiteId' = IF r.syncSelected # None THEN r.syncSelected[1] ELSE baseSel
        /\ isLoading' = (r.payload # None)
        /\ tasks' = IF r.payload # None
                    THEN Append(tasks, Task("status", "upsert", NoSnap, r.payload, session))
                    ELSE tasks
        /\ hb' = Call(via, s, r)
        /\ lo' = None
        /\ bgLog' = None
        /\ ev' = Ev(via, bgRunning, FALSE, FALSE)

\* a handler ran and called nothing
Ran(op) == hb' = None /\ lo' = None /\ bgLog' = None /\ ev' = Ev(op, bgRunning, FALSE, FALSE)

handleUpdateActivity ==
    /\ Mounted
    /\ Len(tasks) < MaxTasks
    /\ IF currentLocation # None
       THEN CallStatusHeartbeat("update", Snap, selectedSiteId)
       ELSE Ran("update") /\ UNCHANGED <<selectedSiteId, isLoading, tasks>>
    /\ UNCHANGED <<user, session, onShift, activity, siteQuery, workOrderId,
                   currentLocation, lastHeartbeat, siteOptions, sitesLoaded,
                   edits, platformVars, nfo_status>>
    /\ UNCHANGED <<authVars, hookVars, moreVars>>

handleCloseActivity ==
    /\ Mounted
    /\ Len(tasks) < MaxTasks
    /\ activity' = Empty
    /\ siteQuery' = Empty
    /\ workOrderId' = Empty
    /\ IF currentLocation # None
       THEN CallStatusHeartbeat("close", Snap, Empty)
       ELSE Ran("close") /\ selectedSiteId' = Empty /\ UNCHANGED <<isLoading, tasks>>
    /\ UNCHANGED <<user, session, onShift, currentLocation, lastHeartbeat,
                   siteOptions, sitesLoaded, edits, platformVars, nfo_status>>
    /\ UNCHANGED <<authVars, hookVars, moreVars>>

\* Send Heartbeat Now: rendered when onShift && currentLocation, disabled while loading
sendHeartbeatNow ==
    /\ Mounted
    /\ Len(tasks) < MaxTasks
    /\ onShift /\ currentLocation # None /\ ~isLoading
    /\ CallStatusHeartbeat("manual", Snap, selectedSiteId)
    /\ UNCHANGED <<user, session, onShift, activity, siteQuery, workOrderId,
                   currentLocation, lastHeartbeat, siteOptions, sitesLoaded,
                   edits, platformVars, nfo_status>>
    /\ UNCHANGED <<authVars, hookVars, moreVars>>

\* ------------------------------------------------------------ shift toggle
\* handleShiftToggle(!onShift) up to the await inside startBackgroundTracking
\* or stopBackgroundTracking
handleShiftToggle ==
    /\ Mounted
    /\ Len(tasks) < MaxTasks
    /\ onShift' = ~onShift
    /\ IF ~onShift
       THEN /\ tasks' = Append(tasks, Task("shiftOn", "start", Snap, None, session))
            /\ taskExecutor' = IF taskExecutor.fn = "none"
                               THEN [fn |-> "startBackgroundTracking", snap |-> Snap]
                               ELSE taskExecutor
       ELSE /\ tasks' = Append(tasks, Task("shiftOff", "stop", Snap, None, session))
            /\ UNCHANGED taskExecutor
    /\ noObs
    /\ UNCHANGED <<user, session, activity, selectedSiteId, siteQuery, workOrderId,
                   currentLocation, lastHeartbeat, isLoading, siteOptions,
                   sitesLoaded, edits, registrations, nfo_status>>
    /\ UNCHANGED <<authVars, hookVars, moreVars>>

\* startLocationUpdatesAsync / stopLocationUpdatesAsync settles (ok, or it
\* throws); handleShiftToggle goes on to its heartbeat unless the error of
\* startBackgroundTracking / stopBackgroundTracking reaches it
shiftToggleResume(i, ok) ==
    /\ i \in DOMAIN tasks
    /\ tasks[i].kind \in {"shiftOn", "shiftOff"}
    /\ LET t == tasks[i]
           s == t.snap
           out == IF t.kind = "shiftOn"
                  THEN startBackgroundTracking(registrations, ~ok)
                  ELSE stopBackgroundTracking(registrations, ~ok)
       IN  /\ registrations' = out.registrations
           /\ ev' = Ev(t.kind, bgRunning, ~ok, out.raised)
           /\ IF s.currentLocation # None /\ ~out.raised
              THEN LET loc == s.currentLocation[1]
                       r == sendStatusHeartbeat(s, loc.lat, loc.lng, Now)
                   IN  /\ selectedSiteId' =
                             IF Live(t) /\ r.syncSelected # None
                             THEN r.syncSelected[1] ELSE selectedSiteId
                       /\ isLoading' = IF Live(t) THEN r.payload # None ELSE isLoading
                       /\ tasks' = IF r.payload # None
                                   THEN [tasks EXCEPT ![i] =
                                           Task("status", "upsert", NoSnap, r.payload, t.screen)]
                                   ELSE RemoveAt(tasks, i)
                       /\ hb' = Call(t.kind, s, r)
              ELSE /\ tasks' = RemoveAt(tasks, i)
                   /\ hb' = None
                   /\ UNCHANGED <<selectedSiteId, isLoading>>
    /\ lo' = None
    /\ bgLog' = None
    /\ UNCHANGED <<user, session, onShift, activity, siteQuery, workOrderId,
                   currentLocation, lastHeartbeat, siteOptions, sitesLoaded,
                   edits, taskExecutor, nfo_status>>
    /\ UNCHANGED <<authVars, hookVars, moreVars>>

\* ------------------------------------------------------------------ logout
\* handleLogout clears the screen state before it builds its payload
ClearForLogout(live) ==
    /\ onShift' = IF live THEN FALSE ELSE onShift
    /\ activity' = IF live THEN Empty ELSE activity
    /\ selectedSiteId' = IF live THEN Empty ELSE selectedSiteId
    /\ siteQuery' = IF live THEN Empty ELSE siteQuery
    /\ workOrderId' = IF live THEN Empty ELSE workOrderId

\* handleLogout up to its first await: stopBackgroundTracking when on shift,
\* the upsert otherwise; the Logout button is never disabled, room bounds the
\* invocations in flight
handleLogoutWithin(room) ==
    /\ Mounted
    /\ Len(tasks) < room
    /\ IF onShift
       THEN /\ tasks' = Append(tasks, Task("logout", "stop", Snap, None, session))
            /\ UNCHANGED <<onShift, activity, selectedSiteId, siteQuery, workOrderId>>
            /\ lo' = None
       ELSE /\ ClearForLogout(TRUE)
            /\ tasks' = Append(tasks, Task("logout", "upsert", NoSnap,
                                           Some(logoutPayload(Snap, Now)), session))
            /\ lo' = Some([snap |-> Snap, payload |-> logoutPayload(Snap, Now)])
    /\ hb' = None
    /\ bgLog' = None
    /\ ev' = None
    /\ UNCHANGED <<user, session, currentLocation, lastHeartbeat, isLoading,
                   siteOptions, sitesLoaded, edits, platformVars, nfo_status>>
    /\ UNCHANGED <<authVars, hookVars, moreVars>>

handleLogout == handleLogoutWithin(MaxTasks)

\* stopBackgroundTracking called by handleLogout settles; an error that
\* reached handleLogout would skip to its finally
logoutResume(i, ok) ==
    /\ i \in DOMAIN tasks
    /\ tasks[i].kind = "logout" /\ tasks[i].pc = "stop"
    /\ LET t == tasks[i]
           out == stopBackgroundTracking(registrations, ~ok)
       IN  /\ registrations' = out.registrations
           /\ ev' = Ev("logout", bgRunning, ~ok, out.raised)
           /\ IF out.raised
              THEN /\ tasks' = RemoveAt(tasks, i)
                   /\ lo' = None
                   /\ logout
                   /\ UNCHANGED <<logins, NFOusers>>
              ELSE /\ ClearForLogout(Live(t))
                   /\ tasks' = [tasks EXCEPT ![i] =
                                  Task("logout", "upsert", NoSnap,
                                       Some(logoutPayload(t.snap, Now)), t.screen)]
                   /\ lo' = Some([snap |-> t.snap, payload |-> logoutPayload(t.snap, Now)])
                   /\ UNCHANGED <<user, currentLocation, lastHeartbeat, isLoading,
                                  siteOptions, sitesLoaded, edits, authVars, watchVars>>
    /\ hb' = None
    /\ bgLog' = None
    /\ UNCHANGED <<session, taskExecutor, nfo_status, hookVars, dashVars, pageVars>>

\* ----------------------------------------------------- backend and resume
\* the backend answers an upsert: "ok" (applied, no error) or "failed" (an
\* error is returned and nothing is written, or the call throws, the row
\* written or not)
backendUpsert(i, resp, applied) ==
    /\ i \in DOMAIN tasks
    /\ tasks[i].pc = "upsert" /\ tasks[i].resp = "pending"
    /\ resp \in {"ok", "failed"}
    /\ resp = "ok" => applied
    /\ nfo_status' = IF applied THEN Upsert(nfo_status, tasks[i].payload[1])
                     ELSE nfo_status
    /\ tasks' = [tasks EXCEPT ![i].resp = resp]
    /\ noObs
    /\ UNCHANGED <<user, session, screenVars, platformVars, authVars, hookVars, moreVars>>

\* logout() placed after the upsert inside the try instead of in finally
afterUpsert_noFinally(i) ==
    /\ i \in DOMAIN tasks
    /\ tasks[i].pc = "upsert" /\ tasks[i].resp # "pending"
    /\ LET t == tasks[i]
       IN  /\ tasks' = RemoveAt(tasks, i)
           /\ IF t.kind = "logout" /\ t.resp = "ok"
              THEN logout /\ UNCHANGED <<logins, NFOusers>>
              ELSE /\ IF t.kind = "status" /\ Live(t)
                      THEN /\ lastHeartbeat' =
                                IF t.resp = "ok" THEN Some(Now) ELSE lastHeartbeat
                           /\ isLoading' = FALSE
                      ELSE UNCHANGED <<lastHeartbeat, isLoading>>
                   /\ UNCHANGED <<user, onShift, activity, selectedSiteId, siteQuery,
                                  workOrderId, currentLocation, siteOptions,
                                  sitesLoaded, edits, authVars, watchVars>>
           /\ ev' = IF t.kind = "status"
                    THEN Ev("sendStatusHeartbeat", bgRunning, t.resp = "failed", FALSE)
                    ELSE None
    /\ hb' = None
    /\ lo' = None
    /\ bgLog' = None
    /\ UNCHANGED <<session, platformVars, nfo_status, hookVars, dashVars, pageVars>>

\* setLastHeartbeat called whatever the upsert returned
afterUpsert_setsOnError(i) ==
    /\ i \in DOMAIN tasks
    /\ tasks[i].pc = "upsert" /\ tasks[i].resp # "pending"
    /\ LET t == tasks[i]
       IN  /\ tasks' = RemoveAt(tasks, i)
           /\ IF t.kind = "logout"
              THEN logout /\ UNCHANGED <<logins, NFOusers>>
              ELSE /\ IF t.kind = "status" /\ Live(t)
                      THEN /\ lastHeartbeat' =
                                Some(Now)
                           /\ isLoading' = FALSE
                      ELSE UNCHANGED <<lastHeartbeat, isLoading>>
                   /\ UNCHANGED <<user, onShift, activity, selectedSiteId, siteQuery,
                                  workOrderId, currentLocation, siteOptions,
                                  sitesLoaded, edits, authVars, watchVars>>
           /\ ev' = IF t.kind = "status"
                    THEN Ev("sendStatusHeartbeat", bgRunning, t.resp = "failed", FALSE)
                    ELSE None
    /\ hb' = None
    /\ lo' = None
    /\ bgLog' = None
    /\ UNCHANGED <<session, platformVars, nfo_status, hookVars, dashVars, pageVars>>

\* the handler continues after its awaited upsert: sendStatusHeartbeat sets
\* lastHeartbeat when no error was returned, its catch logs what was thrown
\* and its finally clears isLoading
afterUpsert(i) ==
    /\ i \in DOMAIN tasks
    /\ tasks[i].pc = "upsert" /\ tasks[i].resp # "pending"
    /\ LET t == tasks[i]
       IN  /\ tasks' = RemoveAt(tasks, i)
           /\ IF t.kind = "logout"
              THEN logout /\ UNCHANGED <<logins, NFOusers>>
              ELSE /\ IF t.kind = "status" /\ Live(t)
                      THEN /\ lastHeartbeat' =
                                IF t.resp = "ok" THEN Some(Now) ELSE lastHeartbeat
                           /\ isLoading' = FALSE
                      ELSE UNCHANGED <<lastHeartbeat, isLoading>>
                   /\ UNCHANGED <<user, onShift, activity, selectedSiteId, siteQuery,
                                  workOrderId, currentLocation, siteOptions,
                                  sitesLoaded, edits, authVars, watchVars>>
           /\ ev' = IF t.kind = "status"
                    THEN Ev("sendStatusHeartbeat", bgRunning, t.resp = "failed", FALSE)
                    ELSE None
    /\ hb' = None
    /\ lo' = None
    /\ bgLog' = None
    /\ UNCHANGED <<session, platformVars, nfo_status, hookVars, dashVars, pageVars>>

\* ------------------------------------------------------ background batches
sendLocationHeartbeat(s, lat, lng, screen) ==
    tasks' = Append(tasks, Task("location", "upsert", NoSnap,
                                Some(locationPayload(s, lat, lng, Now)), screen))

\* the platform delivers a batch of positions (or an error) to the executor of
\* NFO_TRACKING_TASK; bgLog records the last position of a batch that was
\* handled and what the logging executor printed
deliverBatch(batch, error) ==
    /\ bgRunning
    /\ LET handled == ~error /\ Len(batch) > 0
           last == batch[Len(batch)]
       IN  IF taskExecutor.fn = "startBackgroundTracking" /\ handled
           THEN /\ Len(tasks) < MaxTasks
                /\ sendLocationHeartbeat(taskExecutor.snap, last.lat, last.lng, 0)
                /\ bgLog' = Some([last |-> Some(last), logged |-> None])
           ELSE /\ UNCHANGED tasks
                /\ bgLog' = Some([last |-> IF handled THEN Some(last) ELSE None,
                                  logged |-> IF handled /\ taskExecutor.fn = "moduleLevel"
                                             THEN Some(last) ELSE None])
    /\ hb' = None
    /\ lo' = None
    /\ ev' = None
    /\ UNCHANGED <<user, session, screenVars, platformVars, nfo_status,
                   authVars, hookVars, moreVars>>

Batches == UNION {[1..n -> BatchPositions] : n \in 0..MaxBatch}

\* the steps of the session and of NFOHomeScreen
NextScreen ==
    \/ \E id \in Directory : login(id)
    \/ \E p \in Positions : setCurrentLocation(p)
    \/ \E table \in SiteTables : loadSites(table)
    \/ \E text \in TypedTexts : onChangeText(text)
    \/ \E item \in Range(siteOptions) : selectSite(item)
    \/ clearSelection
    \/ \E item \in ActivityOptions : setActivity(item)
    \/ \E text \in WorkOrders : setWorkOrderId(text)
    \/ handleUpdateActivity
    \/ handleCloseActivity
    \/ sendHeartbeatNow
    \/ handleShiftToggle
    \/ \E i \in 1..MaxTasks, ok \in BOOLEAN : shiftToggleResume(i, ok)
    \/ handleLogout
    \/ \E i \in 1..MaxTasks, ok \in BOOLEAN : logoutResume(i, ok)
    \/ \E i \in 1..MaxTasks, resp \in {"ok", "failed"}, applied \in BOOLEAN :
          backendUpsert(i, resp, applied)
    \/ \E i \in 1..MaxTasks : afterUpsert(i)

Next ==
    \/ NextScreen
    \/ \E batch \in Batches, error \in BOOLEAN : deliverBatch(batch, error)

Spec == Init /\ [][Next]_vars

\* sendLocationHeartbeat called directly with a position, as the executor
\* defined in startBackgroundTracking would call it
callSendLocationHeartbeat(p) ==
    /\ Mounted
    /\ Len(tasks) < MaxTasks
    /\ sendLocationHeartbeat(Snap, p.lat, p.lng, session)
    /\ noObs
    /\ UNCHANGED <<user, session, screenVars, platformVars, nfo_status,
                   authVars, hookVars, moreVars>>

NextLocation ==
    \/ NextScreen
    \/ \E p \in BatchPositions : callSendLocationHeartbeat(p)

\* the screen with sendLocationHeartbeat exercised as a function of it, in
\* place of the batches the platform delivers to the task executor
SpecLocation == Init /\ [][NextLocation]_vars

\* --------------------------------------------------- useBackgroundLocation
HookIntervals == {HEARTBEAT_SECONDS, 2 * HEARTBEAT_SECONDS}

HookOp(kind, pc, seconds, inst) ==
    [kind |-> kind, pc |-> pc, timeInterval |-> seconds * 1000, inst |-> inst]

\* the second effect of the hook runs with the options of the render: it
\* returns without a cleanup when not enabled, else setupBackgroundTask runs
\* up to its await
RunEffect(ops, e, n, inst) ==
    /\ hookOps' = IF e THEN Append(ops, HookOp("setup", "start", n, inst)) ELSE ops
    /\ hasCleanup' = e
    /\ taskExecutor' = IF e /\ taskExecutor.fn = "none"
                       THEN [fn |-> "useBackgroundLocation", snap |-> NoSnap]
                       ELSE taskExecutor

\* the cleanup of the last effect run, when it returned one, runs up to its await
RunCleanup(inst) ==
    IF hasCleanup THEN Append(hookOps, HookOp("cleanup", "hasStarted", 0, inst))
    ELSE hookOps

hookFrame ==
    /\ noObs
    /\ UNCHANGED <<user, session, screenVars, registrations, tasks, nfo_status, authVars,
                   moreVars>>

\* a component that uses the hook is mounted
hookMount(e, n) ==
    /\ ~hookMounted
    /\ hookInstance < MaxHookMounts
    /\ Len(hookOps) < MaxHookOps
    /\ hookMounted' = TRUE
    /\ hookInstance' = hookInstance + 1
    /\ enabled' = e
    /\ heartbeatIntervalSeconds' = n
    /\ isRegistered' = FALSE
    /\ RunEffect(hookOps, e, n, hookInstance + 1)
    /\ hookFrame

\* it renders with other options: the cleanup of the last run, then the effect
hookRender(e, n) ==
    /\ hookMounted
    /\ <<e, n>> # <<enabled, heartbeatIntervalSeconds>>
    /\ Len(RunCleanup(hookInstance)) + (IF e THEN 1 ELSE 0) <= MaxHookOps
    /\ enabled' = e
    /\ heartbeatIntervalSeconds' = n
    /\ RunEffect(RunCleanup(hookInstance), e, n, hookInstance)
    /\ hookFrame
    /\ UNCHANGED <<hookMounted, hookInstance, isRegistered>>

hookUnmount ==
    /\ hookMounted
    /\ Len(RunCleanup(hookInstance)) <= MaxHookOps
    /\ hookMounted' = FALSE
    /\ enabled' = FALSE
    /\ heartbeatIntervalSeconds' = HEARTBEAT_SECONDS
    /\ isRegistered' = FALSE
    /\ hasCleanup' = FALSE
    /\ hookOps' = RunCleanup(hookInstance)
    /\ hookFrame
    /\ UNCHANGED <<hookInstance, taskExecutor>>

\* stopTracking, returned by the hook, is called: up to its first await
stopTracking ==
    /\ hookMounted
    /\ Len(hookOps) < MaxHookOps
    /\ hookOps' = Append(hookOps, HookOp("stopTracking", "hasStarted", 0, hookInstance))
    /\ hookFrame
    /\ UNCHANGED <<hookMounted, hookInstance, enabled, heartbeatIntervalSeconds,
                   hasCleanup, isRegistered, taskExecutor>>

\* the platform call a hook operation awaits settles: it returns (ok) or
\* throws.  Every await of the hook is inside a try whose catch only logs.
hookSettle(i, ok) ==
    /\ i \in DOMAIN hookOps
    /\ LET op == hookOps[i]
           started == hasStartedLocationUpdatesAsync(registrations, BACKGROUND_TASK_NAME)
           live == hookMounted /\ op.inst = hookInstance
           goesOn == op.pc = "hasStarted" /\ ok /\ started
           \* setIsRegistered is reached: after the try in the cleanup, inside
           \* the try in setupBackgroundTask and in stopTracking
           sets == live /\ ~goesOn /\ (op.kind = "cleanup" \/ ok)
       IN  /\ registrations' =
                 IF ~ok THEN registrations
                 ELSE IF op.pc = "start"
                 THEN startLocationUpdatesAsync(registrations, BACKGROUND_TASK_NAME,
                                                op.timeInterval)
                 ELSE IF op.pc = "stop"
                 THEN stopLocationUpdatesAsync(registrations, BACKGROUND_TASK_NAME)
                 ELSE registrations
           /\ hookOps' = IF goesOn THEN [hookOps EXCEPT ![i].pc = "stop"]
                         ELSE RemoveAt(hookOps, i)
           /\ isRegistered' = IF sets THEN op.kind = "setup" ELSE isRegistered
           /\ ev' = Ev(op.kind, bgRunning, ~ok, FALSE)
    /\ hb' = None
    /\ lo' = None
    /\ bgLog' = None
    /\ UNCHANGED <<user, session, screenVars, taskExecutor, tasks, nfo_status, authVars,
                   moreVars, hookMounted, hookInstance, enabled, heartbeatIntervalSeconds,
                   hasCleanup>>

\* the shift and logout flows of NFOHomeScreen next to a component that uses
\* useBackgroundLocation: both work on the registration of NFO_TRACKING_TASK
NextTicker ==
    \/ \E id \in Directory : login(id)
    \/ \E p \in Positions : setCurrentLocation(p)
    \/ handleShiftToggle
    \/ \E i \in 1..MaxTasks, ok \in BOOLEAN : shiftToggleResume(i, ok)
    \/ handleLogout
    \/ \E i \in 1..MaxTasks, ok \in BOOLEAN : logoutResume(i, ok)
    \/ \E i \in 1..MaxTasks, resp \in {"ok", "failed"}, applied \in BOOLEAN :
          backendUpsert(i, resp, applied)
    \/ \E i \in 1..MaxTasks : afterUpsert(i)
    \/ \E e \in BOOLEAN, n \in HookIntervals : hookMount(e, n)
    \/ \E e \in BOOLEAN, n \in HookIntervals : hookRender(e, n)
    \/ hookUnmount
    \/ stopTracking
    \/ \E i \in 1..MaxHookOps, ok \in BOOLEAN : hookSettle(i, ok)

SpecTicker == Init /\ [][NextTicker]_vars

\* ------------------------------------------------------------ AuthContext
\* AuthContext.login up to its await of loginWithSupabase
authLogin(c) ==
    /\ Len(logins) < MaxLoginCalls
    /\ authIsLoading' = TRUE
    /\ authError' = None
    /\ logins' = Append(logins, c)
    /\ noObs
    /\ UNCHANGED <<user, session, screenVars, platformVars, tasks, nfo_status,
                   NFOusers, hookVars, moreVars>>

\* a failed lookup also clears the identity, and the error is not rethrown
authLoginSettle_clearsOnError(i, fails) ==
    /\ i \in DOMAIN logins
    /\ LET c == logins[i]
           res == loginWithSupabase(NFOusers, c.username, c.password, fails)
       IN  /\ logins' = RemoveAt(logins, i)
           /\ authIsLoading' = FALSE
           /\ ev' = Ev("login", bgRunning, ~res.ok, FALSE)
           /\ IF res.ok
              THEN /\ user' = Some(userData(res.identity))
                   /\ authError' = None
              ELSE /\ user' = None
                   /\ authError' = Some(res.error)
           /\ IF (user = None) # (user' = None)
              THEN session' = session + 1 /\ FreshScreen
              ELSE UNCHANGED <<session, screenVars>>
    /\ hb' = None
    /\ lo' = None
    /\ bgLog' = None
    /\ UNCHANGED <<platformVars, tasks, nfo_status, NFOusers, hookVars, moreVars>>

\* loginWithSupabase settles: on an identity one setAuthState replaces user
\* (and the navigator mounts NFOHomeScreen if nobody was logged in); on an
\* error the catch keeps user, stores the message and rethrows
authLoginSettle(i, fails) ==
    /\ i \in DOMAIN logins
    /\ LET c == logins[i]
           res == loginWithSupabase(NFOusers, c.username, c.password, fails)
       IN  /\ logins' = RemoveAt(logins, i)
           /\ authIsLoading' = FALSE
           /\ ev' = Ev("login", bgRunning, ~res.ok, ~res.ok)
           /\ IF res.ok
              THEN /\ user' = Some(userData(res.identity))
                   /\ authError' = None
              ELSE /\ user' = user
                   /\ authError' = Some(res.error)
           /\ IF res.ok /\ user = None
              THEN session' = session + 1 /\ FreshScreen
              ELSE UNCHANGED <<session, screenVars>>
    /\ hb' = None
    /\ lo' = None
    /\ bgLog' = None
    /\ UNCHANGED <<platformVars, tasks, nfo_status, NFOusers, hookVars, moreVars>>

InitAuth == Started /\ NFOusers \in UserTables /\ Site_Coordinates \in SiteTables

\* login called with any credentials, in any state of the context
NextAuth ==
    \/ \E c \in Credentials : authLogin(c)
    \/ \E i \in 1..MaxLoginCalls, fails \in BOOLEAN : authLoginSettle(i, fails)

SpecAuth == InitAuth /\ [][NextAuth]_vars

\* ------------------------------------------- the backend and its writers
\* the engineers whose devices write to nfo_status
Engineers ==
    {userData(loginWithSupabase(Accounts, c.username, c.password, FALSE).identity) :
        c \in {c \in Credentials : loginWithSupabase(Accounts, c.username, c.password, FALSE).ok}}

\* screen states a write can be built from
WriterSnaps ==
    {[NoSnap EXCEPT !.user = Some(id), !.onShift = o, !.activity = a,
                    !.selectedSiteId = sel, !.siteQuery = sel,
                    !.currentLocation = Some(pos), !.siteOptions = <<AB>>] :
        id \in Engineers, o \in BOOLEAN, a \in {Empty, Outage},
        sel \in {Empty, AB}, pos \in Positions}

\* an upsert reaches the backend and is applied
arrive(p) ==
    /\ nfo_status' = Upsert(nfo_status, p)
    /\ UNCHANGED <<user, session, screenVars, platformVars, tasks, hb, lo, bgLog, ev,
                   authVars, hookVars, moreVars>>

StatusWrites ==
    {sendStatusHeartbeat(s, s.currentLocation[1].lat, s.currentLocation[1].lng, Now).payload :
        s \in WriterSnaps} \ {None}

LocationWrites ==
    {locationPayload(s, pos.lat, pos.lng, Now) : s \in WriterSnaps, pos \in BatchPositions}

LogoutWrites == {logoutPayload(s, Now) : s \in WriterSnaps}

\* the writes of any number of devices reach the backend in any order
NextBackend ==
    \/ \E w \in StatusWrites : arrive(w[1])
    \/ \E p \in LocationWrites : arrive(p)
    \/ \E p \in LogoutWrites : arrive(p)

SpecBackend == Init /\ [][NextBackend]_vars

\* ------------------------------------------------ foreground position watch
\* the mount effect of NFOHomeScreen calls initializeLocation, which runs up
\* to its first await; a call stays in locationInit when it has returned
initializeLocation ==
    /\ Mounted
    /\ \A i \in DOMAIN locationInit : locationInit[i].screen # session
    /\ locationInit' = Append(locationInit,
                              [pc |-> "requestForegroundPermissionsAsync",
                               screen |-> session])
    /\ noObs
    /\ UNCHANGED <<user, session, screenVars, platformVars, tasks, nfo_status,
                   authVars, hookVars, locationSubscriptionRef, watches,
                   pageVars, dashVars>>

Outcomes == {"granted", "denied", "threw"}

\* the call initializeLocation awaits settles: a permission request returns
\* granted or denied, the other calls return ("granted"), or the call throws
\* and the catch logs.  The setters and the ref of an unmounted screen are
\* written to no effect.
initializeLocationResume(i, outcome, p) ==
    /\ i \in DOMAIN locationInit
    /\ locationInit[i].pc # "returned"
    /\ LET c == locationInit[i]
           live == Mounted /\ c.screen = session
           next ==
               IF outcome = "threw" THEN "returned"
               ELSE IF c.pc = "requestForegroundPermissionsAsync"
               THEN (IF outcome = "granted" THEN "requestBackgroundPermissionsAsync"
                     ELSE "returned")
               ELSE IF c.pc = "requestBackgroundPermissionsAsync"
               THEN "getCurrentPositionAsync"
               ELSE IF c.pc = "getCurrentPositionAsync"
               THEN (IF outcome = "granted" THEN "watchPositionAsync" ELSE "returned")
               ELSE "returned"
           subscribed == c.pc = "watchPositionAsync" /\ outcome = "granted"
       IN  /\ c.pc \notin {"requestForegroundPermissionsAsync",
                           "requestBackgroundPermissionsAsync"}
                  => outcome # "denied"
           /\ locationInit' = [locationInit EXCEPT ![i].pc = next]
           /\ currentLocation' =
                 IF c.pc = "getCurrentPositionAsync" /\ outcome = "granted" /\ live
                 THEN Some(p) ELSE currentLocation
           /\ watches' = IF subscribed THEN watches \cup {c.screen} ELSE watches
           /\ locationSubscriptionRef' =
                 IF subscribed /\ live THEN Some(c.screen) ELSE locationSubscriptionRef
    /\ noObs
    /\ UNCHANGED <<user, session, onShift, activity, selectedSiteId, siteQuery,
                   workOrderId, lastHeartbeat, isLoading, siteOptions, sitesLoaded,
                   edits, platformVars, tasks, nfo_status, authVars, hookVars,
                   pageVars, dashVars>>

\* a subscription of the platform calls back with a position
watchCallback(w, p) ==
    /\ w \in watches
    /\ currentLocation' = IF Mounted /\ w = session THEN Some(p) ELSE currentLocation
    /\ noObs
    /\ UNCHANGED <<user, session, onShift, activity, selectedSiteId, siteQuery,
                   workOrderId, lastHeartbeat, isLoading, siteOptions, sitesLoaded,
                   edits, platformVars, tasks, nfo_status, authVars, hookVars,
                   watchVars, pageVars, dashVars>>

WatchPositions == {[lat |-> 2, lng |-> 3], [lat |-> 4, lng |-> 5]}

\* the screen from mount to unmount with initializeLocation step by step
NextWatch ==
    \/ \E id \in Directory : login(id)
    \/ initializeLocation
    \/ \E i \in 1..MaxLogins, outcome \in Outcomes, p \in WatchPositions :
           initializeLocationResume(i, outcome, p)
    \/ \E w \in 1..MaxLogins, p \in WatchPositions : watchCallback(w, p)
    \/ handleShiftToggle
    \/ \E i \in 1..MaxTasks, ok \in BOOLEAN : shiftToggleResume(i, ok)
    \/ handleLogout
    \/ \E i \in 1..MaxTasks, ok \in BOOLEAN : logoutResume(i, ok)
    \/ \E i \in 1..MaxTasks, resp \in {"ok", "failed"}, applied \in BOOLEAN :
           backendUpsert(i, resp, applied)
    \/ \E i \in 1..MaxTasks : afterUpsert(i)

SpecWatch == Init /\ [][NextWatch]_vars

\* ------------------------------------------------------ loadSites by pages
\* the row counts of Site_Coordinates: none, one, a page less one row, one
\* page, a page and one row, two pages
TableSizes == {0, 1, PAGE_SIZE - 1, PAGE_SIZE, PAGE_SIZE + 1, 2 * PAGE_SIZE}

\* row i of a table of n rows in the order of site_id: a padded or blank id
\* first, an id of its own last, one id on the first page and another after it
SiteAt(n, i, first) ==
    IF i = n THEN Zz
    ELSE IF i = 1 THEN first
    ELSE IF i <= PAGE_SIZE THEN AB
    ELSE Qu

PagedTables == {[i \in 1..n |-> SiteAt(n, i, first)] : n \in TableSizes, first \in {PadAb, Blank}}

InitSites == Started /\ NFOusers = Accounts /\ Site_Coordinates \in PagedTables

\* .range(from, to) on the table ordered by site_id
range(table, from, to) ==
    IF from >= Len(table) THEN <<>>
    ELSE SubSeq(table, from + 1, IF to + 1 < Len(table) THEN to + 1 ELSE Len(table))

\* a full page counted as the last one
lastPage_orFull(data) == Len(data) <= PAGE_SIZE

\* !data || data.length < PAGE_SIZE
lastPage(data) == Len(data) < PAGE_SIZE

\* the mount effect of NFOHomeScreen calls loadSites, which runs up to the
\* await of its first page
loadSitesStart ==
    /\ Mounted
    /\ ~sitesLoaded
    /\ paging = None
    /\ paging' = Some([pc |-> "page", allIds |-> <<>>, from |-> 0, to |-> PAGE_SIZE - 1,
                       requests |-> 1, outcome |-> "pending", screen |-> session])
    /\ noObs
    /\ UNCHANGED <<user, session, screenVars, platformVars, tasks, nfo_status,
                   authVars, hookVars, watchVars, Site_Coordinates, dashVars>>

\* the page loadSites awaits is answered with rows ("data"), with an error
\* ("error": the loop is left and what was fetched is published) or the call
\* throws ("threw": the catch logs and nothing is published)
loadSitesPage(outcome) ==
    /\ paging # None
    /\ paging[1].pc = "page"
    /\ \E data \in {range(Site_Coordinates, paging[1].from, paging[1].to)} :
       \E batchIds \in {TrimmedNonEmpty(data)} :
       LET c == paging[1]
           allIds == IF outcome = "data" THEN c.allIds \o batchIds ELSE c.allIds
           goesOn == outcome = "data" /\ ~lastPage(data)
       IN  /\ paging' = Some(IF goesOn
                             THEN [c EXCEPT !.allIds = allIds,
                                            !.from = c.from + PAGE_SIZE,
                                            !.to = c.to + PAGE_SIZE,
                                            !.requests = c.requests + 1]
                             ELSE [c EXCEPT !.pc = "returned", !.allIds = allIds,
                                            !.outcome = outcome])
           /\ siteOptions' = IF ~goesOn /\ outcome # "threw" /\ Mounted /\ c.screen = session
                             THEN Unique(paging'[1].allIds)
                             ELSE siteOptions
           /\ sitesLoaded' = IF ~goesOn /\ Mounted /\ c.screen = session
                             THEN TRUE ELSE sitesLoaded
    /\ noObs
    /\ UNCHANGED <<user, session, onShift, activity, selectedSiteId, siteQuery,
                   workOrderId, currentLocation, lastHeartbeat, isLoading, edits,
                   platformVars, tasks, nfo_status, authVars, hookVars, watchVars,
                   Site_Coordinates, dashVars>>

\* the screen from mount to unmount with loadSites page by page
NextSites ==
    \/ \E id \in Directory : login(id)
    \/ loadSitesStart
    \/ \E outcome \in {"data", "error", "threw"} : loadSitesPage(outcome)
    \/ handleLogout
    \/ \E i \in 1..MaxTasks, resp \in {"ok", "failed"}, applied \in BOOLEAN :
           backendUpsert(i, resp, applied)
    \/ \E i \in 1..MaxTasks : afterUpsert(i)

SpecSites == InitSites /\ [][NextSites]_vars

\* every page that is asked for is answered
SpecSitesFair ==
    SpecSites /\ WF_vars(\E outcome \in {"data", "error", "threw"} : loadSitesPage(outcome))

\* ------------------------------------------------- ManagerDashboardScreen
\* rows of nfo_status as fetchNfos selects them (the columns only displayed
\* are left out): a busy engineer whose name is blank, a free one with a
\* padded name, one logged out, one logged in off shift whose status is still
\* busy and whose home_location is padded, and a row of nulls
FleetRows ==
    {[username |-> AB, name |-> Some(Blank), logged_in |-> Some(TRUE),
      on_shift |-> Some(TRUE), status |-> Some("busy"),
      home_location |-> Some(Riyadh), last_ping |-> Some(2)],
     [username |-> Qu, name |-> Some(PadAb), logged_in |-> Some(TRUE),
      on_shift |-> Some(TRUE), status |-> Some("free"),
      home_location |-> Some(Riyadh), last_ping |-> Some(3)],
     [username |-> Zz, name |-> None, logged_in |-> Some(FALSE),
      on_shift |-> Some(FALSE), status |-> Some("off-shift"),
      home_location |-> None, last_ping |-> None],
     [username |-> Outage, name |-> None, logged_in |-> Some(TRUE),
      on_shift |-> Some(FALSE), status |-> Some("busy"),
      home_location |-> Some(<<" ", "R">>), last_ping |-> Some(3)],
     [username |-> qu, name |-> Some(Qu), logged_in |-> None,
      on_shift |-> None, status |-> None,
      home_location |-> Some(Blank), last_ping |-> Some(1)]}

\* the answers of the nfo_status query: rows of distinct usernames in any order
FleetSnapshots ==
    {s \in UNION {[1..n -> FleetRows] : n \in 0..MaxFleet} :
        \A i, j \in DOMAIN s : i # j => s[i] # s[j]}

\* the answers of the NFOusers and Site_Coordinates queries
DirectorySnapshots == {<<[username |-> PadAb, name |-> Some(Qu), home_location |-> None]>>}

SiteSnapshots == {<<[site_id |-> AB, latitude |-> Some(2), longitude |-> Some(3),
                     area |-> Some(Riyadh)]>>}

SearchTexts == {Empty, <<" ", "a">>, Qu}

StatusFilters == {"all", "online", "offline", "free", "busy"}

\* a JavaScript condition on a nullable boolean, and on a nullable string
Truthy(x) == x = Some(TRUE)

TruthyText(x) == x # None /\ Len(x[1]) > 0

\* Array.from(areaSet).sort(): the order of the buttons is not modelled
areas ==
    {All} \cup {r.home_location[1] : r \in {x \in Range(dashboard.nfoList) :
                    TruthyText(x.home_location) /\ Trim(x.home_location[1]) # Empty}}

\* nfoUserByUsername.get(key): of the rows with that key the last one
nfoUserByUsername(key) ==
    LET at == {i \in DOMAIN dashboard.nfoUsers :
                  ToUpperCase(Trim(dashboard.nfoUsers[i].username)) = key}
    IN  IF at = {} THEN None
        ELSE Some(dashboard.nfoUsers[CHOOSE i \in at : \A j \in at : j <= i])

getDisplayName(nfo) ==
    IF TruthyText(nfo.name) /\ Len(Trim(nfo.name[1])) > 0 THEN Trim(nfo.name[1])
    ELSE LET userMeta == nfoUserByUsername(ToUpperCase(Trim(nfo.username)))
         IN  IF userMeta # None /\ TruthyText(userMeta[1].name) THEN userMeta[1].name[1]
             ELSE nfo.username

\* a bucket that takes no notice of on_shift
inBucket_ignoresShift(nfo, filter) ==
    CASE filter = "online" -> Truthy(nfo.logged_in)
      [] filter = "offline" -> ~Truthy(nfo.logged_in)
      [] filter = "free" -> Truthy(nfo.logged_in) /\ nfo.status = Some("free")
      [] filter = "busy" -> Truthy(nfo.logged_in) /\ nfo.status = Some("busy")
      [] OTHER -> TRUE

\* the status filter of filteredNfos
inBucket(nfo, filter) ==
    CASE filter = "online" -> Truthy(nfo.logged_in)
      [] filter = "offline" -> ~Truthy(nfo.logged_in)
      [] filter = "free" -> Truthy(nfo.logged_in) /\ Truthy(nfo.on_shift)
                                /\ nfo.status = Some("free")
      [] filter = "busy" -> Truthy(nfo.logged_in) /\ Truthy(nfo.on_shift)
                                /\ nfo.status = Some("busy")
      [] OTHER -> TRUE

\* the search filter of filteredNfos
matchesSearch(nfo, q) ==
    LET meta == nfoUserByUsername(ToUpperCase(Trim(nfo.username)))
        displayName == IF TruthyText(nfo.name) /\ Len(Trim(nfo.name[1])) > 0
                       THEN Trim(nfo.name[1])
                       ELSE IF meta # None /\ TruthyText(meta[1].name) THEN meta[1].name[1]
                       ELSE Empty
    IN  includes(ToLowerCase(displayName), q) \/ includes(ToLowerCase(nfo.username), q)

filteredNfos ==
    LET byArea == IF dashboard.selectedArea # All
                  THEN SelectSeq(dashboard.nfoList,
                                 LAMBDA nfo : nfo.home_location = Some(dashboard.selectedArea))
                  ELSE dashboard.nfoList
        byStatus == SelectSeq(byArea, LAMBDA nfo : inBucket(nfo, dashboard.statusFilter))
        q == ToLowerCase(Trim(dashboard.searchQuery))
    IN  IF Len(Trim(dashboard.searchQuery)) > 0
        THEN SelectSeq(byStatus, LAMBDA nfo : matchesSearch(nfo, q))
        ELSE byStatus

statusOrder(status) ==
    CASE status = Some("busy") -> 0
      [] status = Some("free") -> 1
      [] status = Some("off-shift") -> 2
      [] OTHER -> 3

\* new Date(last_ping).getTime(); new Date(null) is the epoch
getTime(last_ping) == IF last_ping = None THEN 0 ELSE last_ping[1]

\* a comparator that puts the oldest ping first
compare_oldestFirst(a, b) ==
    IF statusOrder(a.status) # statusOrder(b.status)
    THEN statusOrder(a.status) - statusOrder(b.status)
    ELSE getTime(a.last_ping) - getTime(b.last_ping)

\* the comparator of sortedNfos
compare(a, b) ==
    IF statusOrder(a.status) # statusOrder(b.status)
    THEN statusOrder(a.status) - statusOrder(b.status)
    ELSE getTime(b.last_ping) - getTime(a.last_ping)

\* Array.prototype.sort: a stable sort, by insertion
RECURSIVE insert(_, _)
insert(x, sorted) ==
    IF sorted = <<>> THEN <<x>>
    ELSE IF compare(Head(sorted), x) <= 0 THEN <<Head(sorted)>> \o insert(x, Tail(sorted))
    ELSE <<x>> \o sorted

RECURSIVE sort(_)
sort(list) ==
    IF list = <<>> THEN <<>>
    ELSE insert(list[Len(list)], sort(SubSeq(list, 1, Len(list) - 1)))

sortedNfos == sort(filteredNfos)

\* counters computed from the list on display
stats_ofFiltered ==
    [total |-> Len(filteredNfos),
     online |-> Len(SelectSeq(filteredNfos, LAMBDA nfo : Truthy(nfo.logged_in))),
     offline |-> Len(SelectSeq(filteredNfos, LAMBDA nfo : ~Truthy(nfo.logged_in))),
     free |-> Len(SelectSeq(filteredNfos, LAMBDA nfo : inBucket(nfo, "free"))),
     busy |-> Len(SelectSeq(filteredNfos, LAMBDA nfo : inBucket(nfo, "busy")))]

stats ==
    [total |-> Len(dashboard.nfoList),
     online |-> Len(SelectSeq(dashboard.nfoList, LAMBDA nfo : Truthy(nfo.logged_in))),
     offline |-> Len(SelectSeq(dashboard.nfoList, LAMBDA nfo : ~Truthy(nfo.logged_in))),
     free |-> Len(SelectSeq(dashboard.nfoList,
                            LAMBDA nfo : Truthy(nfo.logged_in) /\ Truthy(nfo.on_shift)
                                             /\ nfo.status = Some("free"))),
     busy |-> Len(SelectSeq(dashboard.nfoList,
                            LAMBDA nfo : Truthy(nfo.logged_in) /\ Truthy(nfo.on_shift)
                                             /\ nfo.status = Some("busy")))]

\* the number in the title of the list
listTitle == Len(sortedNfos)

dashFrame ==
    /\ noObs
    /\ UNCHANGED <<user, session, screenVars, platformVars, tasks, nfo_status,
                   authVars, hookVars, watchVars, pageVars>>

\* fetchNfos up to its first await
fetchNfos(d) ==
    /\ Len(fetches) < MaxFetches
    /\ dashboard' = [d EXCEPT !.isLoading = TRUE]
    /\ fetches' = Append(fetches, [pc |-> "nfo_status", instance |-> d.instance])

\* the screen is mounted: its effect calls fetchNfos and sets the interval
dashboardMount ==
    /\ ~dashboard.mounted
    /\ dashboard.instance < MaxDashMounts
    /\ fetchNfos([NoDashboard EXCEPT !.mounted = TRUE, !.instance = dashboard.instance + 1])
    /\ dashFrame

\* the 10 second interval fires
intervalTick ==
    /\ dashboard.mounted
    /\ fetchNfos(dashboard)
    /\ dashFrame

\* the screen is unmounted: clearInterval; its state is gone
dashboardUnmount ==
    /\ dashboard.mounted
    /\ dashboard' = [NoDashboard EXCEPT !.instance = dashboard.instance]
    /\ UNCHANGED fetches
    /\ dashFrame

\* what a query of fetchNfos can be answered with
Answers(pc, outcome) ==
    IF outcome # "data" THEN {<<>>}
    ELSE IF pc = "nfo_status" THEN FleetSnapshots
    ELSE IF pc = "NFOusers" THEN DirectorySnapshots
    ELSE SiteSnapshots

\* a list that is emptied when the query fails
nfoListAfter_clearsOnError(outcome, statusData, held) ==
    IF outcome = "data" THEN statusData ELSE <<>>

\* if (statusError) return; if (statusData) setNfoList(statusData)
nfoListAfter(outcome, statusData, held) ==
    IF outcome = "data" THEN statusData ELSE held

\* the query a fetchNfos call awaits is answered with rows ("data"), with an
\* error, or the call throws.  An error of the nfo_status query and a thrown
\* call end fetchNfos, an error of the other two queries is logged; finally
\* clears isLoading.  The setters of an unmounted screen do nothing.
fetchNfosResume(i, outcome, data) ==
    /\ i \in DOMAIN fetches
    /\ LET f == fetches[i]
           live == dashboard.mounted /\ f.instance = dashboard.instance
           ends == \/ outcome = "threw"
                   \/ f.pc = "nfo_status" /\ outcome = "error"
                   \/ f.pc = "Site_Coordinates"
           next == IF f.pc = "nfo_status" THEN "NFOusers" ELSE "Site_Coordinates"
       IN  /\ fetches' = IF ends THEN RemoveAt(fetches, i)
                         ELSE [fetches EXCEPT ![i].pc = next]
           /\ dashboard' =
                 IF ~live THEN dashboard
                 ELSE [dashboard EXCEPT
                         !.nfoList = IF f.pc = "nfo_status"
                                     THEN nfoListAfter(outcome, data, @) ELSE @,
                         !.nfoUsers = IF f.pc = "NFOusers" /\ outcome = "data"
                                      THEN data ELSE @,
                         !.sites = IF f.pc = "Site_Coordinates" /\ outcome = "data"
                                   THEN data ELSE @,
                         !.isLoading = IF ends THEN FALSE ELSE @]
           /\ ev' = Some([op |-> "fetchNfos", wasRunning |-> bgRunning,
                          threw |-> (outcome = "threw"), raised |-> FALSE,
                          query |-> f.pc, outcome |-> outcome,
                          instance |-> f.instance])
    /\ hb' = None
    /\ lo' = None
    /\ bgLog' = None
    /\ UNCHANGED <<user, session, screenVars, platformVars, tasks, nfo_status,
                   authVars, hookVars, watchVars, pageVars>>

setSelectedArea(area) ==
    /\ dashboard.mounted
    /\ area \in areas
    /\ dashboard' = [dashboard EXCEPT !.selectedArea = area]
    /\ UNCHANGED fetches
    /\ dashFrame

setStatusFilter(filter) ==
    /\ dashboard.mounted
    /\ dashboard' = [dashboard EXCEPT !.statusFilter = filter]
    /\ UNCHANGED fetches
    /\ dashFrame

setSearchQuery(text) ==
    /\ dashboard.mounted
    /\ dashboard' = [dashboard EXCEPT !.searchQuery = text]
    /\ UNCHANGED fetches
    /\ dashFrame

NextFleet ==
    \/ dashboardMount
    \/ intervalTick
    \/ dashboardUnmount
    \/ \E i \in DOMAIN fetches, outcome \in {"data", "error", "threw"} :
           \E data \in Answers(fetches[i].pc, outcome) : fetchNfosResume(i, outcome, data)
    \/ \E area \in areas : setSelectedArea(area)
    \/ \E filter \in StatusFilters : setStatusFilter(filter)
    \/ \E text \in SearchTexts : setSearchQuery(text)

SpecFleet == Init /\ [][NextFleet]_vars

\* ------------------------------------------------ logout during a heartbeat
\* the screen with Logout pressed while a status heartbeat is in flight
NextOverlap ==
    \/ \E id \in Directory : login(id)
    \/ \E p \in Positions : setCurrentLocation(p)
    \/ \E item \in ActivityOptions : setActivity(item)
    \/ handleUpdateActivity
    \/ handleShiftToggle
    \/ \E i \in 1..MaxOverlap, ok \in BOOLEAN : shiftToggleResume(i, ok)
    \/ handleLogoutWithin(MaxOverlap)
    \/ \E i \in 1..MaxOverlap, ok \in BOOLEAN : logoutResume(i, ok)
    \/ \E i \in 1..MaxOverlap, resp \in {"ok", "failed"}, applied \in BOOLEAN :
           backendUpsert(i, resp, applied)
    \/ \E i \in 1..MaxOverlap : afterUpsert(i)

SpecOverlap == Init /\ [][NextOverlap]_vars

\* ------------------------------------------------------------------ claims
\* the site text sendStatusHeartbeat goes by: the selection when there is
\* one, the typed text otherwise (both trimmed)
Candidate(s) ==
    IF Trim(s.selectedSiteId) # Empty THEN Trim(s.selectedSiteId) ELSE Trim(s.siteQuery)

Loaded(s, text) ==
    \E id \in Range(s.siteOptions) : ToLowerCase(Trim(id)) = ToLowerCase(Trim(text))

ValidationError(r) == r.outcome \in {"invalidSite", "siteRequired"}

PendingUpserts(ts) == Cardinality({i \in DOMAIN ts : ts[i].pc = "upsert"})

\* C1: the status shown on screen is off exactly when not on shift, busy
\* exactly when on shift with a non-empty trimmed activity or a non-empty
\* selected site, free otherwise; the statusForDb of every sendStatusHeartbeat
\* call that gets past the site validation follows the same rule on the
\* values the call read, the site being the candidate it accepted.
C1_StatusRule ==
    /\ (derivedStatus = "off") <=> ~onShift
    /\ (derivedStatus = "busy") <=>
          (onShift /\ (Trim(activity) # Empty \/ selectedSiteId # Empty))
    /\ (derivedStatus = "free") <=>
          (onShift /\ Trim(activity) = Empty /\ selectedSiteId = Empty)
    /\ hb # None /\ hb[1].result.outcome # "invalidSite" =>
          LET s == hb[1].snap
              st == hb[1].result.statusForDb
              busy == s.onShift /\ (Trim(s.activity) # Empty \/ Candidate(s) # Empty)
          IN  /\ (st = "off-shift") <=> ~s.onShift
              /\ (st = "busy") <=> busy
              /\ (st = "free") <=> (s.onShift /\ ~busy)
              /\ hb[1].result.payload # None =>
                    hb[1].result.payload[1].status = Some(st)

\* a heartbeat was sent on shift whose status is busy because of its site only
C1_Witness ==
    /\ hb # None
    /\ hb[1].result.outcome = "sent"
    /\ hb[1].snap.onShift
    /\ hb[1].snap.activity = Empty
    /\ hb[1].result.statusForDb = "busy"
    /\ derivedStatus = "busy"

\* C2: the heartbeat sent by handleShiftToggle(true), pressed off shift with
\* no site, no activity and a known position, upserts on_shift = true,
\* status = free and site_id = null.
C2_ToggleOnHeartbeat ==
    hb # None /\ hb[1].via = "shiftOn"
        /\ Trim(hb[1].snap.siteQuery) = Empty /\ hb[1].snap.selectedSiteId = Empty
        /\ hb[1].snap.activity = Empty
    => /\ hb[1].result.payload # None
       /\ hb[1].result.payload[1].on_shift = Some(TRUE)
       /\ hb[1].result.payload[1].status = Some("free")
       /\ hb[1].result.payload[1].site_id = None

\* C3: a sendStatusHeartbeat call with a non-empty site candidate gets past
\* the Invalid Site ID check exactly when the candidate, trimmed and
\* lower-cased, equals the trimmed lower-cased form of a loaded site id; the
\* site_id it writes is then a loaded site id with that normal form, in its
\* stored casing; with AB the only loaded id of normal form ab, the inputs
\* " Ab " and "AB" write AB.
C3_SiteAcceptance ==
    hb # None /\ Candidate(hb[1].snap) # Empty =>
        LET s == hb[1].snap
            r == hb[1].result
        IN  /\ (r.outcome # "invalidSite") <=> Loaded(s, Candidate(s))
            /\ r.outcome # "invalidSite" =>
                  /\ r.payload # None
                  /\ r.payload[1].site_id # None
                  /\ r.payload[1].site_id[1] \in Range(s.siteOptions)
                  /\ ToLowerCase(Trim(r.payload[1].site_id[1])) = ToLowerCase(Candidate(s))
            /\ r.outcome # "invalidSite" /\ ToLowerCase(Candidate(s)) = ab =>
                  r.payload[1].site_id = Some(AB)

\* the typed text " Ab " was written as the loaded AB
C3_Witness ==
    /\ hb # None
    /\ hb[1].snap.siteQuery = PadAb
    /\ hb[1].snap.selectedSiteId = Empty
    /\ hb[1].result.payload # None
    /\ hb[1].result.payload[1].site_id = Some(AB)

\* C4: a step in which sendStatusHeartbeat ends in Invalid Site ID or Site
\* required issues no upsert and leaves the nfo_status table and
\* lastHeartbeat as they were.
C4_ValidationNoWrite ==
    [][hb' # None /\ ValidationError(hb'[1].result) =>
          /\ hb'[1].result.payload = None
          /\ PendingUpserts(tasks') <= PendingUpserts(tasks)
          /\ \A i \in DOMAIN tasks' : tasks'[i].pc = "upsert" => tasks'[i] \in Range(tasks)
          /\ nfo_status' = nfo_status
          /\ lastHeartbeat' = lastHeartbeat]_vars

\* a call ended in Invalid Site ID with a stored record and a last heartbeat
C4_Witness ==
    /\ hb # None
    /\ hb[1].result.outcome = "invalidSite"
    /\ nfo_status # {}
    /\ lastHeartbeat # None

\* C5: whenever sendStatusHeartbeat issues its upsert, neither the typed text
\* nor the selection was a non-empty text that is not a loaded site id.
C5_NoCandidateDropped ==
    hb # None /\ hb[1].result.payload # None =>
        \A text \in {hb[1].snap.siteQuery, hb[1].snap.selectedSiteId} :
            Trim(text) = Empty \/ Loaded(hb[1].snap, text)

\* C6: on shift with a non-empty activity and no site, sendStatusHeartbeat
\* does not abort: it writes status busy with site_id null.
C6_ActivityAloneIsBusy ==
    hb # None /\ hb[1].snap.onShift /\ Trim(hb[1].snap.activity) # Empty
        /\ Trim(hb[1].snap.siteQuery) = Empty /\ Trim(hb[1].snap.selectedSiteId) = Empty
    => /\ hb[1].result.outcome = "sent"
       /\ hb[1].result.payload # None
       /\ hb[1].result.payload[1].status = Some("busy")
       /\ hb[1].result.payload[1].site_id = None

\* C7: the payload handleLogout builds has logged_in = false, on_shift =
\* false, status = off-shift and null activity, site_id and work_order_id,
\* whatever the screen state was; the upsert a logout flow awaits carries
\* these values.
C7_LogoutPayload ==
    /\ lo # None =>
          /\ lo[1].payload.logged_in = Some(FALSE)
          /\ lo[1].payload.on_shift = Some(FALSE)
          /\ lo[1].payload.status = Some("off-shift")
          /\ lo[1].payload.activity = None
          /\ lo[1].payload.site_id = None
          /\ lo[1].payload.work_order_id = None
          /\ \E i \in DOMAIN tasks :
                tasks[i].kind = "logout" /\ tasks[i].payload = Some(lo[1].payload)
    /\ \A i \in DOMAIN tasks : tasks[i].kind = "logout" /\ tasks[i].pc = "upsert" =>
          /\ tasks[i].payload[1].logged_in = Some(FALSE)
          /\ tasks[i].payload[1].on_shift = Some(FALSE)
          /\ tasks[i].payload[1].status = Some("off-shift")
          /\ tasks[i].payload[1].activity = None
          /\ tasks[i].payload[1].site_id = None
          /\ tasks[i].payload[1].work_order_id = None

\* logout was pressed on shift with an activity, a site and a work order set
C7_Witness ==
    /\ lo # None
    /\ lo[1].snap.onShift
    /\ lo[1].snap.activity # Empty
    /\ lo[1].snap.selectedSiteId # Empty
    /\ lo[1].snap.workOrderId # Empty

\* C8: the identity is cleared only by the step that ends a logout flow
\* whose upsert has been answered; that step writes nothing to nfo_status;
\* and a logout flow never ends without clearing the identity, whether the
\* stop or the upsert failed or not.
LogoutFlows(ts) == Cardinality({i \in DOMAIN ts : ts[i].kind = "logout"})

C8_LogoutOrder ==
    [][/\ user # None /\ user' = None =>
             /\ \E i \in DOMAIN tasks :
                   /\ tasks[i].kind = "logout"
                   /\ tasks[i].pc = "upsert"
                   /\ tasks[i].resp # "pending"
                   /\ tasks' = RemoveAt(tasks, i)
             /\ nfo_status' = nfo_status
       /\ LogoutFlows(tasks') < LogoutFlows(tasks) => user' = None]_vars

\* a logout ended with the identity cleared although its upsert wrote nothing
C8_Witness ==
    /\ user = None
    /\ session > 0
    /\ tasks = <<>>
    /\ nfo_status = {}

\* C9: every batch of positions handled by NFO_TRACKING_TASK while the
\* ticker runs issues a location heartbeat with the last position of the
\* batch, and no status heartbeat.
C9_BatchSendsLocation ==
    bgLog # None /\ bgLog[1].last # None =>
        /\ hb = None
        /\ \E i \in DOMAIN tasks :
              /\ tasks[i].kind = "location"
              /\ tasks[i].payload[1].lat = Some(bgLog[1].last[1].lat)
              /\ tasks[i].payload[1].lng = Some(bgLog[1].last[1].lng)

\* C10: the payload of sendLocationHeartbeat has exactly the columns
\* username, lat, lng, last_ping, last_active_at and last_active_source, the
\* last being mobile-app-gps; when the backend applies it, logged_in,
\* on_shift, status, activity, site_id and work_order_id of the row of that
\* username are what they were.
LocationCols == {"username", "lat", "lng", "last_ping", "last_active_at",
                 "last_active_source"}

FrameCols == {"logged_in", "on_shift", "status", "activity", "site_id", "work_order_id"}

C10_LocationFrame ==
    /\ [](\A i \in DOMAIN tasks : tasks[i].kind = "location" =>
            /\ DOMAIN tasks[i].payload[1] = LocationCols
            /\ tasks[i].payload[1].last_active_source = Some("mobile-app-gps"))
    /\ [][\A i \in DOMAIN tasks :
            /\ tasks[i].kind = "location"
            /\ tasks[i].resp = "pending"
            /\ i \in DOMAIN tasks'
            /\ tasks'[i].resp # "pending"
            => \A r \in nfo_status :
                  r.username = tasks[i].payload[1].username =>
                      \E r2 \in nfo_status' :
                          /\ r2.username = r.username
                          /\ \A c \in FrameCols : r2[c] = r[c]]_vars

\* a location heartbeat was applied to a record that a status heartbeat wrote
C10_Witness ==
    \E r \in nfo_status :
        /\ r.last_active_source = Some("mobile-app-gps")
        /\ r.status = Some("busy")
        /\ r.logged_in = Some(TRUE)

\* C11: nfo_status never holds two rows of one username; whichever status,
\* location or logout write arrives next, the table then holds exactly one
\* row of its username; and a username that has a row keeps having one.
RowsOf(table, u) == {r \in table : r.username = u}

C11_OneRowPerUsername ==
    /\ [](\A r \in nfo_status : Cardinality(RowsOf(nfo_status, r.username)) = 1)
    /\ [](\A p \in {w[1] : w \in StatusWrites} \cup LocationWrites \cup LogoutWrites :
            Cardinality(RowsOf(Upsert(nfo_status, p), p.username)) = 1)
    /\ [][\A r \in nfo_status : RowsOf(nfo_status', r.username) # {}]_vars

\* u1 has a row that a logout and then a location heartbeat wrote to, and u2
\* has a row
C11_Witness ==
    /\ \E r \in nfo_status :
          /\ r.username = Some("u1")
          /\ r.logged_in = Some(FALSE)
          /\ r.last_active_source = Some("mobile-app-gps")
    /\ \E r \in nfo_status : r.username = Some("u2")

\* C12: in every row of nfo_status, after any sequence of status, location
\* and logout writes, status is off-shift exactly when on_shift is false.
C12_OffShiftIffNotOnShift ==
    \A r \in nfo_status : (r.status = Some("off-shift")) <=> (r.on_shift = Some(FALSE))

\* an off-shift row written by a status heartbeat and then by a location
\* heartbeat, next to a row that is on shift
C12_Witness ==
    /\ \E r \in nfo_status :
          /\ r.status = Some("off-shift")
          /\ r.on_shift = Some(FALSE)
          /\ r.logged_in = Some(TRUE)
          /\ r.last_active_source = Some("mobile-app-gps")
    /\ \E r \in nfo_status : r.on_shift = Some(TRUE) /\ r.status = Some("busy")

\* C13: every payload sendStatusHeartbeat upserts with status busy has a
\* non-empty site_id that is one of the site ids loaded in the render the
\* call ran in, or a non-empty activity; so has every busy row of nfo_status
\* a site_id or an activity.
C13_BusyHasSiteOrActivity ==
    /\ hb # None /\ hb[1].result.payload # None
          /\ hb[1].result.payload[1].status = Some("busy") =>
          LET row == hb[1].result.payload[1]
          IN  \/ /\ row.site_id # None
                 /\ row.site_id[1] # Empty
                 /\ row.site_id[1] \in Range(hb[1].snap.siteOptions)
              \/ row.activity # None /\ row.activity[1] # Empty
    /\ \A r \in nfo_status : r.status = Some("busy") =>
          \/ r.site_id # None /\ r.site_id[1] # Empty
          \/ r.activity # None /\ r.activity[1] # Empty

\* a busy record with the loaded site Q and no activity was sent and stored
C13_Witness ==
    /\ hb # None
    /\ hb[1].result.payload # None
    /\ hb[1].result.payload[1].status = Some("busy")
    /\ hb[1].result.payload[1].activity = None
    /\ hb[1].result.payload[1].site_id = Some(Qu)
    /\ \E r \in nfo_status : r.status = Some("busy")

\* C14: whenever no start or stop call is in flight, the background ticker
\* runs only if the screen is mounted with onShift true; in particular it is
\* not running once a shift-off or a logout has completed.
C14_TickerOnlyOnShift ==
    tasks = <<>> => (bgRunning => Mounted /\ onShift)

\* C15: there is never more than one background location registration, and
\* a start call that settles while the ticker is registered leaves the
\* registration and the task handler as they were.
C15_StartIsIdempotent ==
    /\ [](Cardinality(registrations) <= 1)
    /\ [][ev' # None /\ ev'[1].op \in {"shiftOn", "setup"} /\ ev'[1].wasRunning =>
            /\ registrations' = registrations
            /\ taskExecutor' = taskExecutor]_vars

C17_HandlersReconcile ==
    ev # None /\ ev[1].op \in {"update", "close", "shiftOn", "shiftOff"} =>
        hb # None /\ hb[1].via = ev[1].op

\* C18: a new status upsert is in flight only through a sendStatusHeartbeat
\* call, one per call, and nfo_status changes only when an upsert in flight
\* is answered, so no upsert is repeated; when a status heartbeat of the
\* mounted screen ends, lastHeartbeat is set if its upsert returned without
\* error and kept if it failed, and lastHeartbeat is set in no other step;
\* the failure does not reach the caller and isLoading is cleared.
StatusInFlight(ts) ==
    Cardinality({i \in DOMAIN ts : ts[i].kind = "status" /\ ts[i].resp = "pending"})

C18_OneAttemptNoRetry ==
    [][/\ StatusInFlight(tasks') > StatusInFlight(tasks) =>
             /\ hb' # None
             /\ hb'[1].result.payload # None
             /\ StatusInFlight(tasks') = StatusInFlight(tasks) + 1
       /\ nfo_status' # nfo_status =>
             \E i \in DOMAIN tasks :
                 /\ tasks[i].resp = "pending"
                 /\ tasks' = [tasks EXCEPT ![i].resp = tasks'[i].resp]
                 /\ tasks'[i].resp # "pending"
       /\ \A i \in DOMAIN tasks :
             /\ tasks[i].kind = "status"
             /\ tasks[i].resp # "pending"
             /\ tasks' = RemoveAt(tasks, i)
             /\ Live(tasks[i])
             => /\ lastHeartbeat' = IF tasks[i].resp = "ok" THEN Some(Now) ELSE lastHeartbeat
                /\ ~isLoading'
                /\ ev' # None /\ ~ev'[1].raised
       /\ lastHeartbeat' # lastHeartbeat /\ lastHeartbeat' # None =>
             \E i \in DOMAIN tasks :
                 /\ tasks[i].kind = "status"
                 /\ tasks[i].resp = "ok"
                 /\ tasks' = RemoveAt(tasks, i)]_vars

\* a status heartbeat ended whose upsert failed: no last heartbeat time,
\* nothing stored, nothing in flight, the screen still mounted
C18_Witness ==
    /\ ev # None
    /\ ev[1].op = "sendStatusHeartbeat"
    /\ ev[1].threw
    /\ lastHeartbeat = None
    /\ nfo_status = {}
    /\ tasks = <<>>
    /\ Mounted

\* C19: a login call whose lookup fails leaves user as it was, stores the
\* message and rethrows; one whose lookup succeeds replaces user, in that one
\* step, by the identity of the row that matches the credentials of the
\* call, whoever was logged in before; user changes in no other step and is
\* always null or a complete identity.
IdentityFields == {"username", "full_name", "home_location", "is_active"}

C19_LoginAtomic ==
    /\ [](user = None \/ DOMAIN user[1] = IdentityFields)
    /\ [][/\ user' # user => ev' # None /\ ev'[1].op = "login" /\ ~ev'[1].threw
          /\ ev' # None /\ ev'[1].op = "login" =>
                IF ev'[1].threw
                THEN /\ user' = user
                     /\ ev'[1].raised
                     /\ authError' \in {Some(LoginFailed), Some(InvalidCredentials)}
                ELSE /\ ~ev'[1].raised
                     /\ authError' = None
                     /\ \E i \in DOMAIN logins, r \in NFOusers :
                           /\ logins' = RemoveAt(logins, i)
                           /\ r.Username = logins[i].username
                           /\ r.Password = logins[i].password
                           /\ user' = Some([username |-> r.Username,
                                            full_name |-> r.name,
                                            home_location |-> r.home_location,
                                            is_active |-> TRUE])]_vars

\* a login failed while u1 was logged in and another login is still awaited:
\* u1 is still the identity
C19_Witness ==
    /\ ev # None
    /\ ev[1].op = "login"
    /\ ev[1].threw
    /\ user # None
    /\ user[1].username = "u1"
    /\ authError = Some(InvalidCredentials)
    /\ logins # <<>>

\* C20: for every table of credentials, every username and password and
\* whether or not the lookup call fails, loginWithSupabase returns an
\* identity only if the call did not fail and a row has that username and
\* that password, and the identity is that of such a row; it throws the
\* invalid-credentials error when the call did not fail and no row matches,
\* and the other error when the call fails; and a login step changes neither
\* NFOusers nor nfo_status.
C20_Returns(c, fails) ==
    LET res == loginWithSupabase(NFOusers, c.username, c.password, fails)
        rows == {r \in NFOusers : r.Username = c.username /\ r.Password = c.password}
    IN  /\ res.ok =>
              /\ ~fails
              /\ \E r \in rows :
                    res.identity = [username |-> r.Username, name |-> r.name,
                                    home_location |-> r.home_location]
        /\ ~fails /\ rows = {} => ~res.ok /\ res.error = InvalidCredentials
        /\ fails => ~res.ok /\ res.error = LoginFailed
        /\ LoginFailed # InvalidCredentials

C20_LookupOutcomes ==
    /\ [](\A c \in Credentials, fails \in BOOLEAN : C20_Returns(c, fails))
    /\ [](user # None => \E r \in NFOusers : r.Username = user[1].username)
    /\ [][NFOusers' = NFOusers /\ nfo_status' = nfo_status]_vars

\* a login with a wrong password was refused with accounts in the table
C20_Witness ==
    /\ ev # None
    /\ ev[1].op = "login"
    /\ authError = Some(InvalidCredentials)
    /\ user = None
    /\ NFOusers = Accounts
    /\ logins = <<>>


\* C26: the status heartbeat sent by handleCloseActivity carries the cleared
\* values: activity, site_id and work_order_id are null, and status is free
\* when on shift.
C26_CloseWritesCleared ==
    hb # None /\ hb[1].via = "close" /\ hb[1].result.payload # None =>
        /\ hb[1].result.payload[1].activity = None
        /\ hb[1].result.payload[1].site_id = None
        /\ hb[1].result.payload[1].work_order_id = None
        /\ (hb[1].result.payload[1].on_shift = Some(TRUE)
                => hb[1].result.payload[1].status = Some("free"))
\* the times of two invocations
Times == {Now, "later"}

TimestampCols == {"updated_at", "last_ping", "last_active_at"}

\* the screen state a sendStatusHeartbeat call with result r leaves behind
AfterCall(s, r) ==
    [s EXCEPT !.selectedSiteId = IF r.syncSelected # None THEN r.syncSelected[1] ELSE @]

\* C25: a sendStatusHeartbeat invocation that follows one that sent a row,
\* with the same position and the same screen state (as the first read it, or
\* as the first left it), at whatever time, sends a row with the same
\* non-timestamp fields.
C25_SameFieldsTwice ==
    hb # None /\ hb[1].result.payload # None =>
        \A now \in Times, s \in {hb[1].snap, AfterCall(hb[1].snap, hb[1].result)} :
            LET loc == hb[1].snap.currentLocation[1]
                first == hb[1].result.payload[1]
                second == sendStatusHeartbeat(s, loc.lat, loc.lng, now)
            IN  /\ second.payload # None
                /\ \A c \in Cols \ TimestampCols : second.payload[1][c] = first[c]
                /\ \A c \in TimestampCols : second.payload[1][c] = Some(now)

\* a call that resolved a typed site, and set it as the selection, sent a row
C25_Witness ==
    /\ hb # None
    /\ hb[1].result.payload # None
    /\ hb[1].result.syncSelected # None
    /\ hb[1].snap.selectedSiteId = Empty
    /\ hb[1].result.payload[1].status = Some("busy")
\* the columns of a row that say what the engineer is doing
PresenceCols == {"logged_in", "on_shift", "status", "activity", "site_id"}

Presence(table) == {[c \in PresenceCols \cup {"username"} |-> r[c]] : r \in table}

\* C27: once handleLogout has written the logout record and cleared the
\* session, no write sets logged_in = true or changes on_shift, status,
\* activity or site_id of the record.
C27_LogoutRecordStays ==
    [][user = None /\ session > 0 /\ nfo_status # {}
           /\ (\A r \in nfo_status : r.logged_in = Some(FALSE))
       => Presence(nfo_status') = Presence(nfo_status)]_vars
\* no start issued by an effect run of the hook is still awaited
SetupSettled == \A i \in DOMAIN hookOps : hookOps[i].kind # "setup"

\* C28: when the effect run of the current render has started the location
\* updates and marked them registered, a call of an earlier run's cleanup that
\* returns neither stops them nor marks them unregistered.
C28_CleanupSparesNextRun ==
    [][hookMounted /\ enabled /\ SetupSettled /\ isRegistered /\ bgRunning
           /\ ev' # None /\ ev'[1].op = "cleanup" /\ ~ev'[1].threw
       => bgRunning' /\ isRegistered']_vars
\* C29: every active foreground position subscription belongs to the mounted
\* NFOHomeScreen: after the screen unmounts none remains.
C29_NoWatchAfterUnmount == \A w \in watches : Mounted /\ w = session
\* the trimmed non-empty site ids among rows
IdsOf(rows) == {Trim(rows[i]) : i \in DOMAIN rows} \ {Empty}

NoDuplicates(list) == \A i, j \in DOMAIN list : i # j => list[i] # list[j]

\* the rows of the first k pages
FirstPages(k) ==
    SubSeq(Site_Coordinates, 1,
           IF k * PAGE_SIZE < Len(Site_Coordinates) THEN k * PAGE_SIZE
           ELSE Len(Site_Coordinates))

\* what a loadSites call has asked for and, once it has returned on a screen
\* still mounted, published
PagesPublished ==
    paging # None =>
        LET c == paging[1]
            pages == Len(Site_Coordinates) \div PAGE_SIZE + 1
        IN  /\ c.requests <= pages
            /\ c.from = (c.requests - 1) * PAGE_SIZE
            /\ c.to = c.from + PAGE_SIZE - 1
            /\ c.pc = "returned" /\ Mounted /\ c.screen = session =>
                 /\ NoDuplicates(siteOptions)
                 /\ c.outcome = "data" =>
                        /\ c.requests = pages
                        /\ Range(siteOptions) = IdsOf(Site_Coordinates)
                 /\ c.outcome = "error" =>
                        Range(siteOptions) = IdsOf(FirstPages(c.requests - 1))
                 /\ c.outcome = "threw" => siteOptions = <<>>

\* C30: loadSites asks for consecutive pages of PAGE_SIZE rows, at most one
\* more than the table has full pages, and every call returns; when the last
\* page came with fewer than PAGE_SIZE rows siteOptions holds, once each, the
\* trimmed non-empty ids of the whole table, and when a page came with an
\* error those of the pages before it.
C30_LoadSitesTerminates ==
    /\ []PagesPublished
    /\ (paging # None /\ paging[1].pc = "page") ~> (paging # None /\ paging[1].pc = "returned")

\* a table of exactly two pages was loaded with a third, empty page
C30_Witness ==
    /\ Len(Site_Coordinates) = 2 * PAGE_SIZE
    /\ paging # None
    /\ paging[1].pc = "returned"
    /\ paging[1].outcome = "data"
    /\ paging[1].requests = 3
    /\ Mounted
    /\ siteOptions = <<AB, Qu, Zz>>
\* a record of the Fleet Viewer passes the area filter, the status bucket and
\* the search
InArea(nfo) ==
    dashboard.selectedArea = All \/ nfo.home_location = Some(dashboard.selectedArea)

InStatusBucket(nfo) ==
    \/ dashboard.statusFilter = "all"
    \/ dashboard.statusFilter = "online" /\ nfo.logged_in = Some(TRUE)
    \/ dashboard.statusFilter = "offline" /\ nfo.logged_in # Some(TRUE)
    \/ dashboard.statusFilter = "free" /\ nfo.logged_in = Some(TRUE)
           /\ nfo.on_shift = Some(TRUE) /\ nfo.status = Some("free")
    \/ dashboard.statusFilter = "busy" /\ nfo.logged_in = Some(TRUE)
           /\ nfo.on_shift = Some(TRUE) /\ nfo.status = Some("busy")

Found(nfo) ==
    LET q == ToLowerCase(Trim(dashboard.searchQuery))
    IN  \/ q = Empty
        \/ includes(ToLowerCase(getDisplayName(nfo)), q)
        \/ includes(ToLowerCase(nfo.username), q)

Passes(nfo) == InArea(nfo) /\ InStatusBucket(nfo) /\ Found(nfo)

Held == dashboard.nfoList

\* C21: the counters total, online, offline, free and busy are the counts
\* over the whole list that was fetched, whatever area, status filter and
\* search text are chosen, and the number in the title of the list is the
\* number of records that pass the filters.
C21_CountersOverFullSet ==
    /\ stats.total = Len(Held)
    /\ stats.online = Cardinality({i \in DOMAIN Held : Held[i].logged_in = Some(TRUE)})
    /\ stats.offline = Cardinality({i \in DOMAIN Held : Held[i].logged_in # Some(TRUE)})
    /\ stats.free = Cardinality({i \in DOMAIN Held :
                          /\ Held[i].logged_in = Some(TRUE)
                          /\ Held[i].on_shift = Some(TRUE)
                          /\ Held[i].status = Some("free")})
    /\ stats.busy = Cardinality({i \in DOMAIN Held :
                          /\ Held[i].logged_in = Some(TRUE)
                          /\ Held[i].on_shift = Some(TRUE)
                          /\ Held[i].status = Some("busy")})
    /\ listTitle = Cardinality({i \in DOMAIN Held : Passes(Held[i])})

\* three records are held, two of them offline, and the offline filter shows two
C21_Witness ==
    /\ dashboard.mounted
    /\ dashboard.statusFilter = "offline"
    /\ stats.total = 3
    /\ stats.online = 1
    /\ stats.offline = 2
    /\ listTitle = 2

\* C22: the filtered list is the fetched list, in its order, without the
\* records that fail the area filter (home_location equal to the selected
\* area, unless All), the status bucket or the search (the trimmed query,
\* whatever its case, inside the display name or the username).
C22_FilterPipeline == filteredNfos = SelectSeq(Held, Passes)

\* area, busy bucket and a search that matches a name of the directory leave
\* one of three records
C22_Witness ==
    /\ dashboard.mounted
    /\ Len(Held) = 3
    /\ dashboard.selectedArea = Riyadh
    /\ dashboard.statusFilter = "busy"
    /\ dashboard.searchQuery = Qu
    /\ Len(filteredNfos) = 1
    /\ filteredNfos[1].username = AB
    /\ \E i \in DOMAIN Held : Held[i].status = Some("busy") /\ Held[i].username # AB

Rank(nfo) ==
    IF nfo.status = Some("busy") THEN 0
    ELSE IF nfo.status = Some("free") THEN 1
    ELSE IF nfo.status = Some("off-shift") THEN 2
    ELSE 3

Ping(nfo) == IF nfo.last_ping = None THEN 0 ELSE nfo.last_ping[1]

\* C23: the displayed list holds the records of the filtered list, each as
\* often, ordered by status rank (busy 0, free 1, off-shift 2, else 3) and
\* within a rank by last_ping, latest first.
C23_SortOrder ==
    /\ Len(sortedNfos) = Len(filteredNfos)
    /\ \A r \in Range(filteredNfos) \cup Range(sortedNfos) :
          Cardinality({i \in DOMAIN sortedNfos : sortedNfos[i] = r})
              = Cardinality({i \in DOMAIN filteredNfos : filteredNfos[i] = r})
    /\ \A i, j \in DOMAIN sortedNfos :
          i < j => \/ Rank(sortedNfos[i]) < Rank(sortedNfos[j])
                   \/ /\ Rank(sortedNfos[i]) = Rank(sortedNfos[j])
                      /\ Ping(sortedNfos[i]) >= Ping(sortedNfos[j])

\* three records were reordered: two busy ones by their pings, a free one last
C23_Witness ==
    /\ Len(sortedNfos) = 3
    /\ sortedNfos # filteredNfos
    /\ Rank(sortedNfos[1]) = 0 /\ Rank(sortedNfos[2]) = 0 /\ Rank(sortedNfos[3]) = 1
    /\ Ping(sortedNfos[1]) > Ping(sortedNfos[2])
    /\ filteredNfos[1] = sortedNfos[3]

\* C24: when the nfo_status query of a fetchNfos call returns an error or
\* throws, the held record list, user directory and site list stay as they
\* are, nothing is written to nfo_status, isLoading of the screen that made
\* the call is false afterwards and a mounted screen stays mounted with its
\* interval, so the next tick fetches again.
C24_FailedFetchKeepsSnapshot ==
    [][ev' # None /\ ev'[1].op = "fetchNfos" /\ ev'[1].query = "nfo_status"
           /\ ev'[1].outcome # "data"
       => /\ dashboard'.nfoList = dashboard.nfoList
          /\ dashboard'.nfoUsers = dashboard.nfoUsers
          /\ dashboard'.sites = dashboard.sites
          /\ nfo_status' = nfo_status
          /\ dashboard.instance = ev'[1].instance => ~dashboard'.isLoading
          /\ dashboard'.mounted = dashboard.mounted
          /\ Len(fetches') < MaxFetches]_vars

\* a fetch failed on a screen that holds records, a directory and sites
C24_Witness ==
    /\ ev # None
    /\ ev[1].op = "fetchNfos"
    /\ ev[1].query = "nfo_status"
    /\ ev[1].outcome = "error"
    /\ ev[1].instance = dashboard.instance
    /\ dashboard.mounted
    /\ Len(dashboard.nfoList) = 3
    /\ dashboard.nfoUsers # <<>>
    /\ dashboard.sites # <<>>
    /\ ~dashboard.isLoading
====
